---- MODULE Spec2Model ----
(***************************************************************************)
(* niimprint: the printer client (framing, request/response with retries,  *)
(* the print job) over a byte-stream transport.                            *)
(*                                                                         *)
(* Bytes are integers 0..255, byte strings are sequences of them, a packet *)
(* is a record [type, data].                                               *)
(***************************************************************************)
EXTENDS Integers, Sequences, FiniteSets, TLC

VARIABLES
    packetbuf,    \* PrinterClient._packetbuf: the inbound accumulator
    rx,           \* bytes the device has sent that no transport read returned yet
    written,      \* the transport writes so far, each one byte string
    tpc,          \* where the current _transceive call is
    respcode,     \* _transceive: respoffset + reqcode of the current call
    rounds,       \* _transceive: how many times the current call called _recv
    resp,         \* _transceive: the local resp (None or the captured packet)
    exc,          \* the exception that ended the current call or the job ("" if none)
    lastPackets,  \* the packets the last _recv decoded
    lastret,      \* the value the last finished _transceive call returned
    nret,         \* how many _transceive calls have returned a packet
    jpc,          \* where print_image is
    image,        \* print_image: the image, a sequence of rows of L pixels
    batch_size,   \* print_image: batch_size
    density,      \* print_image: density
    emitted,      \* how many frames the device has sent
    arg,          \* the packet the loopback check sends
    endfails,     \* how many END_PRINT requests the device answered "not finished"
    op,           \* the device operation called on the client ("" if none)
    opArg,        \* its argument (n, key, or the pair of set_dimension)
    result,       \* what it returned
    opc,          \* where it is: "idle", "called", "returned" or "raised"
    transport,    \* the transport object: its backend and its fields
    lock,         \* who holds BLETransport._buffer_lock ("" if free)
    hpc,          \* where the BLE notification handler (background thread) is
    hdata,        \* the data of the notification being handled
    rpc,          \* where the foreground call on the transport is
    rlen,         \* read: its length argument
    notified,     \* all notification payloads so far, in arrival order
    got,          \* the bytes the reads have returned so far, in order
    lastread,     \* the bytes the last read returned
    texc,         \* the exception the last transport call raised ("" if none)
    tcall,        \* the last call made on the transport ("" if none)
    tcalls,       \* how many calls were made on the transport
    closes        \* how many close() calls have returned

\* the state of a device operation called on its own
opVars == <<op, opArg, result, opc>>

\* the state of the transport object and of the threads that use it
bleVars == <<transport, lock, hpc, hdata, rpc, rlen, notified, got, lastread, texc,
             tcall, tcalls, closes>>

\* the state of the client, but for the bytes written
clientVars == <<packetbuf, rx, tpc, respcode, rounds, resp, exc, lastPackets,
                lastret, nret, jpc, image, batch_size, density, emitted, arg, endfails>>

vars == <<packetbuf, rx, written, tpc, respcode, rounds, resp, exc, lastPackets,
          lastret, nret, jpc, image, batch_size, density, emitted, arg, endfails,
          opVars, bleVars>>

---------------------------------------------------------------------------
(* Bounds of the model. *)

\* the device of the standalone client sends at most this many frames
MaxEmit == 3
\* the images printed have at most this many rows
MaxRows == 2
\* the device answers END_PRINT with "not finished" at most this many times
MaxEndFail == 2
\* the loopback check sends payloads of every length up to this one
MaxPayload == 2
\* rows are sent with every batch_size from 1 up to this one
MaxBatch == 3
\* the encoder is given every black-and-white image this wide or narrower
MaxWidth == 3
\* the device sends at most this many frames while a device operation waits
MaxOpEmit == 2
\* the BLE device sends at most this many notifications
MaxNotify == 2
\* at most this many calls are made on a transport
MaxTCalls == 3
\* the encoder is given 8-pixel-wide images of up to this many rows
MaxEncRows == 4
\* _recv is called up to this many times on a damaged stream
MaxRecv == 2
\* _transceive is called up to this many times, one call after the other
MaxCalls == 2
\* the device of that client sends at most this many frames
MaxLate == 2

---------------------------------------------------------------------------
(* Program constants. *)

GET_INFO == 64
GET_RFID == 26
HEARTBEAT == 220
SET_LABEL_TYPE == 35
SET_LABEL_DENSITY == 33
START_PRINT == 1
END_PRINT == 243
START_PAGE_PRINT == 3
END_PAGE_PRINT == 227
ALLOW_PRINT_CLEAR == 32
SET_DIMENSION == 19
SET_QUANTITY == 21
GET_PRINT_STATUS == 163
PRINT_EMPTY_ROW == 132
PRINT_BITMAP_ROW == 133

\* _transceive: a frame of this type raises ValueError
ERR_DEVICE == 219
\* _transceive: a frame of this type raises NotImplementedError
ERR_UNSUPPORTED == 0
\* _transceive: for _ in range(6)
MaxAttempts == 6
\* _recv: self._transport.read(1024)
ReadMax == 1024
\* _recv: while len(self._packetbuf) > 4
MinHead == 4
\* _recv: pkt_len = self._packetbuf[3] + 7
FrameOverhead == 7

None == [type |-> -1, data |-> <<>>]
IsNone(p) == p.type = -1

\* no device operation is called on its own
NoResult == [kind |-> "none"]

NoOp == op = "" /\ opArg = 0 /\ result = NoResult /\ opc = "idle"

\* the transport object is not looked into: the client sees written and rx only
NoTransport ==
    /\ transport = [kind |-> "any"]
    /\ lock = ""
    /\ hpc = "idle"
    /\ hdata = <<>>
    /\ rpc = "idle"
    /\ rlen = 0
    /\ notified = <<>>
    /\ got = <<>>
    /\ lastread = <<>>
    /\ texc = ""
    /\ tcall = ""
    /\ tcalls = 0
    /\ closes = 0

Packet(t, d) == [type |-> t, data |-> d]

Min(a, b) == IF a < b THEN a ELSE b

---------------------------------------------------------------------------
(* The packet codec (niimprint/packet.py). *)

RECURSIVE Xor(_, _)
Xor(a, b) ==
    IF a = 0 THEN b
    ELSE IF b = 0 THEN a
    ELSE (((a % 2) + (b % 2)) % 2) + 2 * Xor(a \div 2, b \div 2)

\* the XOR of the bytes s[lo..hi] (0 for none); XOR is associative, and the
\* halving keeps the evaluation shallow for a payload of 255 bytes
RECURSIVE XorAll(_, _, _)
XorAll(s, lo, hi) ==
    IF lo > hi THEN 0
    ELSE IF lo = hi THEN s[lo]
    ELSE LET mid == (lo + hi) \div 2 IN
         Xor(XorAll(s, lo, mid), XorAll(s, mid + 1, hi))

\* checksum = type ^ len(data) ^ every data byte
Checksum(t, d) == Xor(Xor(t, Len(d)), XorAll(d, 1, Len(d)))

\* NiimbotPacket.to_bytes: 55 55 type len data checksum AA AA
to_bytes(p) ==
    <<85, 85, p.type, Len(p.data)>> \o p.data
        \o <<Checksum(p.type, p.data), 170, 170>>

\* NiimbotPacket.from_bytes on one whole frame: the packet, and whether the
\* checksum byte is the checksum of the type, the length and the data
from_bytes(pkt) ==
    LET type_ == pkt[3]
        len_ == pkt[4]
        data == SubSeq(pkt, 5, 4 + len_)
    IN  [packet |-> Packet(type_, data),
         ok |-> Checksum(type_, data) = pkt[Len(pkt) - 2]]

\* whether to_bytes gives a frame for p: the length of the data has to fit the
\* one length byte, otherwise to_bytes raises the encoding error
EncodeOk(p) == Len(p.data) < 256

---------------------------------------------------------------------------
(* PrinterClient._recv *)

\* pkt_len = self._packetbuf[3] + 7
\* (a variant that takes the frame one byte short)
PktLenShort(buf) == buf[4] + FrameOverhead - 1
PktLen(buf) == buf[4] + FrameOverhead

\* The while loop of _recv on the accumulator buf, packets decoded so far.
\* status "ret": the loop ended and _recv returns packets;
\* status "spin": more than 4 bytes are buffered and fewer than pkt_len, the
\*   loop body changes nothing and the loop condition stays true for ever;
\* status "corrupt": from_bytes raised, before the del of the frame's bytes.
\* (a variant that decodes one frame and returns)
RecvLoopOne(buf, packets) ==
    IF Len(buf) > MinHead
    THEN LET pkt_len == PktLen(buf) IN
         IF Len(buf) >= pkt_len
         THEN LET d == from_bytes(SubSeq(buf, 1, pkt_len)) IN
              IF d.ok
              THEN [status |-> "ret", buf |-> SubSeq(buf, pkt_len + 1, Len(buf)),
                    packets |-> Append(packets, d.packet)]
              ELSE [status |-> "corrupt", buf |-> buf, packets |-> packets]
         ELSE [status |-> "spin", buf |-> buf, packets |-> packets]
    ELSE [status |-> "ret", buf |-> buf, packets |-> packets]

RECURSIVE RecvLoop(_, _)
RecvLoop(buf, packets) ==
    IF Len(buf) > MinHead
    THEN LET pkt_len == PktLen(buf) IN
         IF Len(buf) >= pkt_len
         THEN LET d == from_bytes(SubSeq(buf, 1, pkt_len)) IN
              IF d.ok
              THEN RecvLoop(SubSeq(buf, pkt_len + 1, Len(buf)),
                            Append(packets, d.packet))
              ELSE [status |-> "corrupt", buf |-> buf, packets |-> packets]
         ELSE [status |-> "spin", buf |-> buf, packets |-> packets]
    ELSE [status |-> "ret", buf |-> buf, packets |-> packets]

\* _recv with the transport read returning chunk
RecvOf(buf, chunk) == RecvLoop(buf \o chunk, <<>>)

---------------------------------------------------------------------------
(* PrinterClient._transceive *)

\* The for loop over the packets of one round: the first packet of type 219
\* or 0 raises, a packet of type respcode is kept in resp (a later one
\* replaces an earlier one).
\* (a variant that keeps any packet that is no error as the response)
RECURSIVE ClassifyAny(_, _, _)
ClassifyAny(packets, code, r) ==
    IF packets = <<>> THEN [exc |-> "", resp |-> r]
    ELSE LET packet == Head(packets) IN
         IF packet.type = ERR_DEVICE THEN [exc |-> "ValueError", resp |-> r]
         ELSE IF packet.type = ERR_UNSUPPORTED
              THEN [exc |-> "NotImplementedError", resp |-> r]
         ELSE ClassifyAny(Tail(packets), code, packet)

\* (a variant that keeps the first packet of type respcode of the call)
RECURSIVE ClassifyFirst(_, _, _)
ClassifyFirst(packets, code, r) ==
    IF packets = <<>> THEN [exc |-> "", resp |-> r]
    ELSE LET packet == Head(packets) IN
         IF packet.type = ERR_DEVICE THEN [exc |-> "ValueError", resp |-> r]
         ELSE IF packet.type = ERR_UNSUPPORTED
              THEN [exc |-> "NotImplementedError", resp |-> r]
         ELSE IF packet.type = code /\ r.type = -1
              THEN ClassifyFirst(Tail(packets), code, packet)
         ELSE ClassifyFirst(Tail(packets), code, r)

RECURSIVE Classify(_, _, _)
Classify(packets, code, r) ==
    IF packets = <<>> THEN [exc |-> "", resp |-> r]
    ELSE LET packet == Head(packets) IN
         IF packet.type = ERR_DEVICE THEN [exc |-> "ValueError", resp |-> r]
         ELSE IF packet.type = ERR_UNSUPPORTED
              THEN [exc |-> "NotImplementedError", resp |-> r]
         ELSE IF packet.type = code
              THEN Classify(Tail(packets), code, packet)
         ELSE Classify(Tail(packets), code, r)

\* (a variant that writes the request twice)
SendTwice(packet) ==
    written' = written \o << to_bytes(packet), to_bytes(packet) >>

\* (a variant that writes whatever the packet is)
SendAnyway(packet) ==
    written' = Append(written,
                      <<85, 85, packet.type, Len(packet.data)>> \o packet.data
                          \o <<Checksum(packet.type, packet.data), 170, 170>>)

\* _send: self._transport.write(packet.to_bytes()); the argument is evaluated
\* first, so nothing is written when to_bytes raises
Send(packet) ==
    written' = IF EncodeOk(packet) THEN Append(written, to_bytes(packet)) ELSE written

\* _transceive up to its first _recv: respcode, the request written, resp = None
TransceiveSend(reqcode, data, respoffset) ==
    /\ respcode' = respoffset + reqcode
    /\ Send(Packet(reqcode, data))
    /\ resp' = None
    /\ rounds' = 0
    /\ exc' = ""
    /\ lastPackets' = <<>>
    /\ tpc' = "recv"

\* How one round of _transceive ends, given what its _recv did (r) and what the
\* loop over the packets did (c): the next value of tpc.
RoundEnd(r, c, n) ==
    IF r.status = "spin" THEN "spin"
    ELSE IF r.status = "corrupt" THEN "raised"
    ELSE IF c.exc /= "" THEN "raised"
    ELSE IF ~IsNone(c.resp) THEN "returned"
    ELSE IF n = MaxAttempts THEN "returned"
    ELSE "recv"

\* One round of the for loop of _transceive: _recv (a transport read that
\* returns the first n buffered bytes, n <= 1024, then the decode loop), the
\* loop over the decoded packets, and the return, the raise or the next round.
ReadRound(n) ==
    /\ tpc = "recv"
    /\ rounds < MaxAttempts
    /\ LET chunk == SubSeq(rx, 1, n)
           r == RecvOf(packetbuf, chunk)
           c == IF r.status = "ret" THEN Classify(r.packets, respcode, resp)
                ELSE [exc |-> "", resp |-> resp]
       IN  /\ rx' = SubSeq(rx, n + 1, Len(rx))
           /\ packetbuf' = r.buf
           /\ lastPackets' = r.packets
           /\ rounds' = rounds + 1
           /\ resp' = c.resp
           /\ exc' = IF r.status = "corrupt" THEN "CorruptFrameError" ELSE c.exc
           /\ tpc' = RoundEnd(r, c, rounds + 1)
    /\ UNCHANGED <<written, respcode, lastret, nret, jpc, image, batch_size, density, emitted,
                   arg, endfails, opVars, bleVars>>

\* the round with a read that returns any number of the buffered bytes
RecvRound == \E n \in 0..Min(Len(rx), ReadMax) : ReadRound(n)

---------------------------------------------------------------------------
(* A client that calls _transceive once, and a device that may send any       *)
(* frames while the call waits.                                               *)

\* a response type no modelled request expects (HEARTBEAT's, 0xDD)
Unrelated == HEARTBEAT + 1

Commands ==
    { [req |-> START_PRINT, data |-> <<1>>, off |-> 1],
      [req |-> SET_LABEL_DENSITY, data |-> <<3>>, off |-> 16] }

\* what the device may send: a frame of the expected type, a frame of another
\* type, the device-error frame, the unsupported frame
DevFrames ==
    { Packet(respcode, <<1>>), Packet(Unrelated, <<0>>),
      Packet(ERR_DEVICE, <<1>>), Packet(ERR_UNSUPPORTED, <<1>>) }

Call ==
    /\ tpc = "idle"
    /\ jpc = "none"
    /\ written = <<>>
    /\ \E c \in Commands : TransceiveSend(c.req, c.data, c.off)
    /\ UNCHANGED <<packetbuf, rx, lastret, nret, jpc, image, batch_size, density, emitted,
                   arg, endfails, opVars, bleVars>>

DeviceEmit ==
    /\ tpc = "recv"
    /\ jpc = "none"
    /\ emitted < MaxEmit
    /\ \E f \in DevFrames : rx' = rx \o to_bytes(f)
    /\ emitted' = emitted + 1
    /\ UNCHANGED <<packetbuf, written, tpc, respcode, rounds, resp, exc, lastPackets,
                   lastret, nret, jpc, image, batch_size, density, arg, endfails, opVars, bleVars>>

\* the call returns to its caller (or its exception reaches it)
Finish ==
    /\ tpc \in {"returned", "raised"}
    /\ jpc \in {"none", "calls"}
    /\ lastret' = IF tpc = "returned" THEN resp ELSE lastret
    /\ nret' = IF tpc = "returned" /\ ~IsNone(resp) THEN nret + 1 ELSE nret
    /\ tpc' = "idle"
    /\ UNCHANGED <<packetbuf, rx, written, respcode, rounds, resp, exc, lastPackets,
                   jpc, image, batch_size, density, emitted, arg, endfails, opVars, bleVars>>

Init ==
    /\ packetbuf = <<>>
    /\ rx = <<>>
    /\ written = <<>>
    /\ tpc = "idle"
    /\ respcode = 0
    /\ rounds = 0
    /\ resp = None
    /\ exc = ""
    /\ lastPackets = <<>>
    /\ lastret = None
    /\ nret = 0
    /\ jpc = "none"
    /\ image = [width |-> 0, rows |-> <<>>]
    /\ batch_size = 1
    /\ density = 3
    /\ emitted = 0
    /\ arg = None
    /\ endfails = 0
    /\ NoOp
    /\ NoTransport

Next == Call \/ DeviceEmit \/ RecvRound \/ Finish

Spec == Init /\ [][Next]_vars

---------------------------------------------------------------------------
(* PrinterClient._encode_image, _send_batch, _send_image_batched *)

\* struct.pack(">H", n)
PackH(n) == << (n \div 256) % 256, n % 256 >>

\* ImageOps.invert on an L pixel
Invert(v) == 255 - v

\* convert("1") on an L pixel that is 0 or 255; getpixel gives 0 or 255
ToBilevel(v) == IF v >= 128 THEN 255 ELSE 0

\* line_data of row: the pixels of the inverted, bilevel image
LineData(row) == [x \in 1..Len(row) |-> ToBilevel(Invert(row[x]))]

\* int(line_data_str, 2): the row's bits read as one binary number
RECURSIVE BitsToInt(_, _)
BitsToInt(line, acc) ==
    IF line = <<>> THEN acc
    ELSE BitsToInt(Tail(line), 2 * acc + (IF Head(line) = 0 THEN 0 ELSE 1))

\* n.to_bytes(k, "big")
RECURSIVE IntToBytes(_, _)
IntToBytes(n, k) ==
    IF k = 0 THEN <<>> ELSE Append(IntToBytes(n \div 256, k - 1), n % 256)

\* math.ceil(width / 8)
CeilDiv8(w) == (w + 7) \div 8

\* (a variant that looks at the pixels of the image as given, not inverted)
EncodeRowAsGiven(row, y) ==
    IF \A x \in 1..Len(row) : row[x] = 0
    THEN Packet(PRINT_EMPTY_ROW, PackH(y) \o <<1>>)
    ELSE Packet(PRINT_BITMAP_ROW,
                PackH(y) \o <<0, 0, 0, 1>>
                    \o IntToBytes(BitsToInt(row, 0), CeilDiv8(Len(row))))

\* (a variant that decides on the first pixel of the row alone)
EncodeRowFirstPixel(row, y) ==
    LET line_data == LineData(row) IN
    IF line_data[1] = 0
    THEN Packet(PRINT_EMPTY_ROW, PackH(y) \o <<1>>)
    ELSE Packet(PRINT_BITMAP_ROW,
                PackH(y) \o <<0, 0, 0, 1>>
                    \o IntToBytes(BitsToInt(line_data, 0), CeilDiv8(Len(row))))

\* the packet _encode_image yields for row y (0-based) of the image
EncodeRow(row, y) ==
    LET line_data == LineData(row) IN
    IF \A x \in 1..Len(line_data) : line_data[x] = 0
    THEN Packet(PRINT_EMPTY_ROW, PackH(y) \o <<1>>)
    ELSE Packet(PRINT_BITMAP_ROW,
                PackH(y) \o <<0, 0, 0, 1>>
                    \o IntToBytes(BitsToInt(line_data, 0), CeilDiv8(Len(row))))

\* (a variant that numbers the rows from 1)
EncodeImageFromOne(img) == [i \in 1..Len(img.rows) |-> EncodeRow(img.rows[i], i)]

\* the packets _encode_image yields, in order
EncodeImage(img) == [i \in 1..Len(img.rows) |-> EncodeRow(img.rows[i], i - 1)]

\* the byte string _send_batch writes for packets
RECURSIVE BatchData(_)
BatchData(packets) ==
    IF packets = <<>> THEN <<>>
    ELSE to_bytes(Head(packets)) \o BatchData(Tail(packets))

\* (a variant that sends a batch only when it has grown past batch_size)
RECURSIVE SendBatchedLate(_, _, _)
SendBatchedLate(pkts, batch, bs) ==
    IF pkts = <<>>
    THEN (IF batch /= <<>> THEN << BatchData(batch) >> ELSE <<>>)
    ELSE LET b == Append(batch, Head(pkts)) IN
         IF Len(b) > bs
         THEN << BatchData(b) >> \o SendBatchedLate(Tail(pkts), <<>>, bs)
         ELSE SendBatchedLate(Tail(pkts), b, bs)

\* (a variant that forgets the rows left over after the last full batch)
RECURSIVE SendBatchedFull(_, _, _)
SendBatchedFull(pkts, batch, bs) ==
    IF pkts = <<>>
    THEN <<>>
    ELSE LET b == Append(batch, Head(pkts)) IN
         IF Len(b) >= bs
         THEN << BatchData(b) >> \o SendBatchedFull(Tail(pkts), <<>>, bs)
         ELSE SendBatchedFull(Tail(pkts), b, bs)

\* _send_image_batched: the writes made for the packets pkts still to come,
\* with batch the packets collected so far
RECURSIVE SendBatched(_, _, _)
SendBatched(pkts, batch, bs) ==
    IF pkts = <<>>
    THEN (IF batch /= <<>> THEN << BatchData(batch) >> ELSE <<>>)
    ELSE LET b == Append(batch, Head(pkts)) IN
         IF Len(b) >= bs
         THEN << BatchData(b) >> \o SendBatched(Tail(pkts), <<>>, bs)
         ELSE SendBatched(Tail(pkts), b, bs)

---------------------------------------------------------------------------
(* PrinterClient.print_image and the device operations it calls *)

\* the steps of print_image that are one _transceive call each
Steps == {"density", "label_type", "start_print", "start_page_print",
          "dimension", "end_page_print", "end_print"}

StepReq(s) ==
    CASE s = "density" -> SET_LABEL_DENSITY
      [] s = "label_type" -> SET_LABEL_TYPE
      [] s = "start_print" -> START_PRINT
      [] s = "start_page_print" -> START_PAGE_PRINT
      [] s = "dimension" -> SET_DIMENSION
      [] s = "end_page_print" -> END_PAGE_PRINT
      [] s = "end_print" -> END_PRINT

StepOffset(s) == IF s \in {"density", "label_type"} THEN 16 ELSE 1

\* (a variant that passes the width before the height)
StepDataWidthFirst(s) ==
    CASE s = "density" -> << density >>
      [] s = "label_type" -> << 1 >>
      [] s = "dimension" -> PackH(image.width) \o PackH(Len(image.rows))
      [] OTHER -> << 1 >>

\* set_dimension(image.height, image.width) packs its two arguments in order
StepData(s) ==
    CASE s = "density" -> << density >>
      [] s = "label_type" -> << 1 >>
      [] s = "dimension" -> PackH(Len(image.rows)) \o PackH(image.width)
      [] OTHER -> << 1 >>

\* set_label_density: assert 1 <= n <= 5;  set_label_type: assert 1 <= n <= 3
StepArgOk(s) ==
    CASE s = "density" -> 1 <= density /\ density <= 5
      [] s = "label_type" -> TRUE
      [] OTHER -> TRUE

\* (a variant that streams the rows before the page is started)
StepAfterSkip(s, ok) ==
    CASE s = "density" -> "label_type"
      [] s = "label_type" -> "start_print"
      [] s = "start_print" -> "rows"
      [] s = "start_page_print" -> "dimension"
      [] s = "dimension" -> "end_page_print"
      [] s = "end_page_print" -> "end_print"
      [] s = "end_print" -> IF ok THEN "done" ELSE "end_print"

\* (a variant that calls end_print once, whatever it returns)
StepAfterOnce(s, ok) ==
    CASE s = "density" -> "label_type"
      [] s = "label_type" -> "start_print"
      [] s = "start_print" -> "start_page_print"
      [] s = "start_page_print" -> "dimension"
      [] s = "dimension" -> "rows"
      [] s = "end_page_print" -> "end_print"
      [] s = "end_print" -> "done"

\* print_image does not look at what the device operations return, except for
\* end_print, which it repeats until it returns True
StepAfter(s, ok) ==
    CASE s = "density" -> "label_type"
      [] s = "label_type" -> "start_print"
      [] s = "start_print" -> "start_page_print"
      [] s = "start_page_print" -> "dimension"
      [] s = "dimension" -> "rows"
      [] s = "end_page_print" -> "end_print"
      [] s = "end_print" -> IF ok THEN "done" ELSE "end_print"

\* a device operation up to the first _recv of its _transceive call
JobStep ==
    /\ jpc \in Steps
    /\ tpc = "idle"
    /\ IF StepArgOk(jpc)
       THEN /\ TransceiveSend(StepReq(jpc), StepData(jpc), StepOffset(jpc))
            /\ emitted' = 0
            /\ UNCHANGED jpc
       ELSE /\ jpc' = "raised"
            /\ exc' = "AssertionError"
            /\ UNCHANGED <<written, tpc, respcode, rounds, resp, lastPackets, emitted>>
    /\ UNCHANGED <<packetbuf, rx, lastret, nret, image, batch_size, density, arg, endfails, opVars, bleVars>>

\* (a variant in which a device operation that got no response is called again)
JobResumeRetry ==
    /\ jpc \in Steps
    /\ tpc \in {"returned", "raised"}
    /\ tpc' = "idle"
    /\ IF tpc = "raised"
       THEN jpc' = "raised" /\ UNCHANGED <<exc, lastret, nret>>
       ELSE IF IsNone(resp)
       THEN UNCHANGED <<jpc, exc, nret>> /\ lastret' = resp
       ELSE IF resp.data = <<>>
       THEN jpc' = "raised" /\ exc' = "IndexError" /\ lastret' = resp
            /\ nret' = nret + 1
       ELSE /\ jpc' = StepAfter(jpc, resp.data[1] /= 0)
            /\ lastret' = resp
            /\ nret' = nret + 1
            /\ UNCHANGED exc
    /\ UNCHANGED <<packetbuf, rx, written, respcode, rounds, resp, lastPackets, image,
                   batch_size, density, emitted, arg, endfails, opVars, bleVars>>

\* the rest of a device operation, bool(packet.data[0]), and print_image up to
\* its next call
JobResume ==
    /\ jpc \in Steps
    /\ tpc \in {"returned", "raised"}
    /\ tpc' = "idle"
    /\ IF tpc = "raised"
       THEN jpc' = "raised" /\ UNCHANGED <<exc, lastret, nret>>
       ELSE IF IsNone(resp)
       THEN jpc' = "raised" /\ exc' = "AttributeError" /\ lastret' = resp
            /\ UNCHANGED nret
       ELSE IF resp.data = <<>>
       THEN jpc' = "raised" /\ exc' = "IndexError" /\ lastret' = resp
            /\ nret' = nret + 1
       ELSE /\ jpc' = StepAfter(jpc, resp.data[1] /= 0)
            /\ lastret' = resp
            /\ nret' = nret + 1
            /\ UNCHANGED exc
    /\ UNCHANGED <<packetbuf, rx, written, respcode, rounds, resp, lastPackets, image,
                   batch_size, density, emitted, arg, endfails, opVars, bleVars>>

\* self._send_image_batched(image, batch_size)
SendRows ==
    /\ jpc = "rows"
    /\ tpc = "idle"
    /\ written' = written \o SendBatched(EncodeImage(image), <<>>, batch_size)
    /\ jpc' = "end_page_print"
    /\ UNCHANGED <<packetbuf, rx, tpc, respcode, rounds, resp, exc, lastPackets,
                   lastret, nret, image, batch_size, density, emitted, arg, endfails, opVars, bleVars>>

\* The printer: it answers a request at most once, with a frame of the
\* expected type that says success (1) or failure (0), or with an error frame.
JobAnswers ==
    { Packet(respcode, <<0>>), Packet(respcode, <<1>>),
      Packet(ERR_DEVICE, <<1>>), Packet(ERR_UNSUPPORTED, <<1>>) }

DeviceAnswer ==
    /\ jpc \in Steps
    /\ tpc = "recv"
    /\ emitted = 0
    /\ \E f \in JobAnswers :
         LET notyet == jpc = "end_print" /\ f = Packet(respcode, <<0>>) IN
         /\ notyet => endfails < MaxEndFail
         /\ endfails' = IF notyet THEN endfails + 1 ELSE endfails
         /\ rx' = rx \o to_bytes(f)
    /\ emitted' = 1
    /\ UNCHANGED <<packetbuf, written, tpc, respcode, rounds, resp, exc, lastPackets,
                   lastret, nret, jpc, image, batch_size, density, arg, opVars, bleVars>>

\* the rows an image is made of: 8 white pixels, or dark and white alternating
RowSamples == { <<255, 255, 255, 255, 255, 255, 255, 255>>,
                <<0, 255, 0, 255, 0, 255, 0, 255>> }

RECURSIVE SeqsUpTo(_, _)
SeqsUpTo(S, n) ==
    IF n = 0 THEN { <<>> }
    ELSE LET shorter == SeqsUpTo(S, n - 1) IN
         shorter \cup { Append(q, x) : q \in { r \in shorter : Len(r) = n - 1 }, x \in S }

Images == { [width |-> 8, rows |-> r] : r \in SeqsUpTo(RowSamples, MaxRows) }

BatchSizes == {1, 2}

Densities == {0, 3, 6}

InitPrint ==
    /\ packetbuf = <<>>
    /\ rx = <<>>
    /\ written = <<>>
    /\ tpc = "idle"
    /\ respcode = 0
    /\ rounds = 0
    /\ resp = None
    /\ exc = ""
    /\ lastPackets = <<>>
    /\ lastret = None
    /\ nret = 0
    /\ jpc = "density"
    /\ image \in Images
    /\ batch_size \in BatchSizes
    /\ density \in Densities
    /\ emitted = 0
    /\ arg = None
    /\ endfails = 0
    /\ NoOp
    /\ NoTransport

NextPrint == JobStep \/ DeviceAnswer \/ RecvRound \/ JobResume \/ SendRows

SpecPrint == InitPrint /\ [][NextPrint]_vars

---------------------------------------------------------------------------
(* The codec through the client: _send writes a packet to a transport that    *)
(* gives the written bytes back, _recv reads and decodes them.                *)

TypeSamples == {0, 1, 85, 170, 219, 255}

ByteSamples == {0, 85, 170, 255}

\* the longest payload a frame can carry: its length is one byte
LongPayloads == { [i \in 1..255 |-> 255], [i \in 1..255 |-> i] }

\* payloads that do not fit a frame
OversizePayloads == { [i \in 1..256 |-> 0], [i \in 1..256 |-> i % 256],
                      [i \in 1..300 |-> 255] }

PayloadSamples == SeqsUpTo(ByteSamples, MaxPayload) \cup LongPayloads \cup OversizePayloads

InitCodec ==
    /\ packetbuf = <<>>
    /\ rx = <<>>
    /\ written = <<>>
    /\ tpc = "idle"
    /\ respcode = 0
    /\ rounds = 0
    /\ resp = None
    /\ exc = ""
    /\ lastPackets = <<>>
    /\ lastret = None
    /\ nret = 0
    /\ jpc = "codec"
    /\ image = [width |-> 0, rows |-> <<>>]
    /\ batch_size = 1
    /\ density = 3
    /\ emitted = 0
    /\ arg \in { Packet(t, d) : t \in TypeSamples, d \in PayloadSamples }
    /\ endfails = 0
    /\ NoOp
    /\ NoTransport

\* _send(arg); the transport loops the written bytes back
CodecSend ==
    /\ jpc = "codec"
    /\ tpc = "idle"
    /\ Send(arg)
    /\ rx' = IF EncodeOk(arg) THEN rx \o to_bytes(arg) ELSE rx
    /\ tpc' = IF EncodeOk(arg) THEN "sent" ELSE "raised"
    /\ exc' = IF EncodeOk(arg) THEN exc ELSE "EncodingError"
    /\ UNCHANGED <<packetbuf, respcode, rounds, resp, lastPackets, lastret, nret,
                   jpc, image, batch_size, density, emitted, arg, endfails, opVars, bleVars>>

\* _send_batch([Packet(arg.type, b""), arg]): every to_bytes is evaluated
\* before the one write
CodecSendBatch ==
    /\ jpc = "codec"
    /\ tpc = "idle"
    /\ LET packets == << Packet(arg.type, <<>>), arg >>
           ok == \A i \in 1..Len(packets) : EncodeOk(packets[i])
       IN  /\ written' = IF ok THEN Append(written, BatchData(packets)) ELSE written
           /\ tpc' = IF ok THEN "batch_sent" ELSE "raised"
           /\ exc' = IF ok THEN exc ELSE "EncodingError"
    /\ UNCHANGED <<packetbuf, rx, respcode, rounds, resp, lastPackets, lastret, nret,
                   jpc, image, batch_size, density, emitted, arg, endfails, opVars, bleVars>>

\* _recv(): the read returns what is buffered, up to 1024 bytes
CodecRecv ==
    /\ jpc = "codec"
    /\ tpc = "sent"
    /\ LET n == Min(Len(rx), ReadMax)
           r == RecvOf(packetbuf, SubSeq(rx, 1, n))
       IN  /\ rx' = SubSeq(rx, n + 1, Len(rx))
           /\ packetbuf' = r.buf
           /\ lastPackets' = r.packets
           /\ exc' = IF r.status = "corrupt" THEN "CorruptFrameError" ELSE ""
           /\ tpc' = IF r.status = "ret" THEN "received"
                     ELSE IF r.status = "spin" THEN "spin" ELSE "raised"
    /\ UNCHANGED <<written, respcode, rounds, resp, lastret, nret, jpc, image,
                   batch_size, density, emitted, arg, endfails, opVars, bleVars>>

NextCodec == CodecSend \/ CodecSendBatch \/ CodecRecv

SpecCodec == InitCodec /\ [][NextCodec]_vars

---------------------------------------------------------------------------
(* What the properties below read off a state. *)

HasType(packets, t) == \E i \in 1..Len(packets) : packets[i].type = t

HasError(packets) == HasType(packets, ERR_DEVICE) \/ HasType(packets, ERR_UNSUPPORTED)

\* the command types of the frames of one byte string, in order
RECURSIVE FrameTypes(_)
FrameTypes(bytes) ==
    IF Len(bytes) < FrameOverhead THEN <<>>
    ELSE << bytes[3] >> \o FrameTypes(SubSeq(bytes, bytes[4] + FrameOverhead + 1, Len(bytes)))

\* the command types written to the transport so far, in order
RECURSIVE TypesOf(_)
TypesOf(writes) ==
    IF writes = <<>> THEN <<>> ELSE FrameTypes(Head(writes)) \o TypesOf(Tail(writes))

WrittenTypes == TypesOf(written)

RowTypes == {PRINT_EMPTY_ROW, PRINT_BITMAP_ROW}

\* the command types print_image is to write for its image, up to END_PAGE_PRINT
JobOrder ==
    << SET_LABEL_DENSITY, SET_LABEL_TYPE, START_PRINT, START_PAGE_PRINT, SET_DIMENSION >>
        \o [i \in 1..Len(image.rows) |-> EncodeImage(image)[i].type]
        \o << END_PAGE_PRINT >>

\* the steps before the rows and the step after them, whose result print_image drops
SetupSteps == Steps \ {"end_print"}

\* the response of step s that says failure
FailureOf(s) == Packet(StepReq(s) + StepOffset(s), <<0>>)

---------------------------------------------------------------------------
(* C1: for every type and every payload of 0..255 bytes, decoding the bytes   *)
(* that encoding a packet produced gives back one packet with the same type   *)
(* and payload, and takes exactly len(payload) + 7 bytes off the accumulator. *)
C1_RoundTrip ==
    (jpc = "codec" /\ tpc \in {"received", "spin", "raised"} /\ Len(arg.data) <= 255) =>
        /\ tpc = "received"
        /\ lastPackets = << arg >>
        /\ Len(written[1]) = Len(arg.data) + FrameOverhead
        /\ packetbuf = <<>>
        /\ rx = <<>>

C1_Witness ==
    /\ jpc = "codec"
    /\ tpc = "received"
    /\ Len(arg.data) = 255
    /\ arg.type = 219
    /\ lastPackets = << arg >>

(* C2: _transceive returns the frame of type reqcode + respoffset also when   *)
(* frames of other types that are no errors come before and after it in the   *)
(* same read; a frame of another type is never what it returns.               *)
C2_MatchingFrameReturned ==
    /\ (tpc = "returned" /\ ~IsNone(resp)) => resp.type = respcode
    /\ (/\ tpc \in {"recv", "returned", "raised"}
        /\ HasType(lastPackets, respcode)
        /\ ~HasError(lastPackets))
         => /\ tpc = "returned"
            /\ resp.type = respcode
            /\ \E i \in 1..Len(lastPackets) : lastPackets[i] = resp

C2_Witness ==
    /\ tpc = "returned"
    /\ rounds = 1
    /\ Len(lastPackets) = 3
    /\ lastPackets[1].type = Unrelated
    /\ lastPackets[2].type = respcode
    /\ lastPackets[3].type = Unrelated
    /\ resp = lastPackets[2]

(* C3: when no frame of the expected type and no error frame is delivered in  *)
(* any round, the call makes its 6 rounds and then returns None, and does not *)
(* raise. Stated of a call that makes no further round: it has returned None  *)
(* after 6 rounds.                                                            *)
C3_NoMatchReturnsNone ==
    (/\ jpc = "none"
     /\ tpc \in {"returned", "raised", "spin"}
     /\ ~HasType(lastPackets, respcode)
     /\ ~HasError(lastPackets)
     /\ Len(packetbuf) >= 3 => packetbuf[3] \notin {respcode, ERR_DEVICE, ERR_UNSUPPORTED})
      => /\ tpc = "returned"
         /\ IsNone(resp)
         /\ rounds = MaxAttempts

(* C4: every _transceive call ends after at most 6 receive rounds, however    *)
(* the response bytes are split across the reads: no call is left in a        *)
(* receive step that cannot end.                                              *)
C4_TransceiveTerminates ==
    /\ rounds <= MaxAttempts
    /\ tpc /= "spin"

(* C5: when the head of the accumulator holds fewer bytes than its length     *)
(* byte declares, the receive step decodes nothing from them, leaves them in  *)
(* place and returns, so that a later read can complete the frame.            *)
C5_IncompleteHeadWaits ==
    (/\ jpc = "none"
     /\ Len(packetbuf) >= MinHead
     /\ Len(packetbuf) < PktLen(packetbuf))
      => tpc /= "spin"

(* C6: a decoded frame of type 0xDB or 0x00 fails the call, also after a      *)
(* frame of the expected type in the same round: it is never ignored.         *)
C6_ErrorFrameFailsCall ==
    (jpc = "none" /\ HasError(lastPackets))
      => exc \in {"ValueError", "NotImplementedError"}

(* C7: print_image writes SET_LABEL_DENSITY, SET_LABEL_TYPE (1), START_PRINT, *)
(* START_PAGE_PRINT, SET_DIMENSION, the rows, END_PAGE_PRINT, END_PRINT in    *)
(* this order; a request is written only once the response to the one before  *)
(* has been received; no row is written before SET_DIMENSION's response or    *)
(* after END_PAGE_PRINT.                                                      *)
C7_CommandOrder ==
    LET w == WrittenTypes
        requests == { i \in 1..Len(w) : w[i] \notin RowTypes }
    IN  /\ \A i \in 1..Len(w) :
             w[i] = IF i <= Len(JobOrder) THEN JobOrder[i] ELSE END_PRINT
        /\ Len(written) >= 2 => written[2] = to_bytes(Packet(SET_LABEL_TYPE, <<1>>))
        /\ Cardinality(requests) <= nret + 1
        /\ (\E i \in 1..Len(w) : w[i] \in RowTypes) => nret >= 5
        /\ (Len(w) > 5 /\ Len(image.rows) = 0) => nret >= 5

C7_Witness ==
    /\ jpc = "done"
    /\ Len(image.rows) = 2
    /\ endfails = 1
    /\ WrittenTypes = JobOrder \o << END_PRINT, END_PRINT >>

(* C8: a response with payload[0] = 0 to set-density, set-label-type,         *)
(* start-print, start-page-print, set-dimension or end-page-print fails the   *)
(* job, and nothing is written after it.                                      *)
C8_FailedStepIsFatal ==
    \A s \in SetupSteps :
        lastret = FailureOf(s) =>
            /\ jpc = "raised"
            /\ WrittenTypes[Len(WrittenTypes)] = StepReq(s)

(* C9: a step of print_image that gets no response (None) or whose call       *)
(* raised for an error frame makes print_image raise; the step is not called  *)
(* again and nothing more is written.                                         *)
C9_StepFailureIsFatal ==
    [][ /\ (jpc \in Steps /\ tpc = "returned" /\ IsNone(resp))
          => /\ jpc' = "raised"
             /\ exc' = "AttributeError"
             /\ written' = written
        /\ (jpc \in Steps /\ tpc = "raised" /\ exc \in {"ValueError", "NotImplementedError"})
          => /\ jpc' = "raised"
             /\ exc' = exc
             /\ written' = written
        /\ jpc = "raised" => (jpc' = "raised" /\ written' = written) ]_vars

C9_Witness ==
    /\ jpc = "raised"
    /\ exc = "AttributeError"
    /\ rounds = MaxAttempts
    /\ nret = 2
    /\ Len(written) = 3

(* C10: print_image returns only after an END_PRINT response with             *)
(* payload[0] /= 0; after an END_PRINT response with payload[0] = 0 it writes *)
(* END_PRINT again, every time.                                               *)
C10_EndPrintPolled ==
    /\ [](jpc = "done" =>
            /\ lastret.type = END_PRINT + 1
            /\ lastret.data[1] /= 0)
    /\ [][ /\ (/\ jpc = "end_print"
               /\ tpc = "returned"
               /\ resp = FailureOf("end_print"))
             => (jpc' = "end_print" /\ tpc' = "idle" /\ exc' = exc)
           /\ (jpc = "end_print" /\ tpc = "idle")
             => written' = Append(written, to_bytes(Packet(END_PRINT, <<1>>))) ]_vars

C10_Witness ==
    /\ jpc = "done"
    /\ endfails = 2
    /\ Len(written) >= 3
    /\ written[Len(written)] = to_bytes(Packet(END_PRINT, <<1>>))
    /\ written[Len(written) - 1] = to_bytes(Packet(END_PRINT, <<1>>))
    /\ written[Len(written) - 2] = to_bytes(Packet(END_PRINT, <<1>>))

---------------------------------------------------------------------------
(* print_image against a stub transport that answers every request at once    *)
(* with the success frame of the expected type and sends nothing for rows.    *)

\* 4 rows of 8 background (white) pixels
BlankImage4 ==
    [width |-> 8, rows |-> [y \in 1..4 |-> [x \in 1..8 |-> 255]]]

InitE2E ==
    /\ packetbuf = <<>>
    /\ rx = <<>>
    /\ written = <<>>
    /\ tpc = "idle"
    /\ respcode = 0
    /\ rounds = 0
    /\ resp = None
    /\ exc = ""
    /\ lastPackets = <<>>
    /\ lastret = None
    /\ nret = 0
    /\ jpc = "density"
    /\ image = BlankImage4
    /\ batch_size \in 1..MaxBatch
    /\ density \in 1..5
    /\ emitted = 0
    /\ arg = None
    /\ endfails = 0
    /\ NoOp
    /\ NoTransport

\* the stub's write: the success frame is there before the client reads
StubAnswer ==
    /\ jpc \in Steps
    /\ tpc = "recv"
    /\ emitted = 0
    /\ rx' = rx \o to_bytes(Packet(respcode, <<1>>))
    /\ emitted' = 1
    /\ UNCHANGED <<packetbuf, written, tpc, respcode, rounds, resp, exc, lastPackets,
                   lastret, nret, jpc, image, batch_size, density, arg, endfails, opVars, bleVars>>

\* a round of _transceive whose read returns all the stub has buffered
StubRecv ==
    /\ rx /= <<>>
    /\ RecvRound
    /\ rx' = <<>>

NextE2E == JobStep \/ StubAnswer \/ StubRecv \/ JobResume \/ SendRows

SpecE2E == InitE2E /\ [][NextE2E]_vars

\* the frames of one byte string, in order
RECURSIVE FramesOf(_)
FramesOf(bytes) ==
    IF Len(bytes) < FrameOverhead THEN <<>>
    ELSE << SubSeq(bytes, 1, bytes[4] + FrameOverhead) >>
             \o FramesOf(SubSeq(bytes, bytes[4] + FrameOverhead + 1, Len(bytes)))

RECURSIVE FramesOfAll(_)
FramesOfAll(writes) ==
    IF writes = <<>> THEN <<>> ELSE FramesOf(Head(writes)) \o FramesOfAll(Tail(writes))

IsRowFrame(f) == f[3] \in RowTypes

\* the row frames written to the transport so far, in order
RowFramesWritten == SelectSeq(FramesOfAll(written), IsRowFrame)

(* C11: with a transport that answers every request with the right success   *)
(* frame and nothing for rows, print_image of a 4-row, 8-pixel-wide image of  *)
(* background pixels writes exactly the 4 PRINT_EMPTY_ROW commands of rows    *)
(* 0..3, no PRINT_BITMAP_ROW command, and completes without an error.         *)
C11_BlankImagePrints ==
    /\ jpc /= "raised"
    /\ tpc \notin {"raised", "spin"}
    /\ jpc = "done" \/ ENABLED NextE2E
    /\ RowFramesWritten =
         IF jpc \in {"end_page_print", "end_print", "done"}
         THEN [y \in 1..4 |-> to_bytes(Packet(PRINT_EMPTY_ROW, <<0, y - 1, 1>>))]
         ELSE <<>>

C11_Witness ==
    /\ jpc = "done"
    /\ batch_size = 3
    /\ Len(RowFramesWritten) = 4
    /\ Len(written) = 9

---------------------------------------------------------------------------
(* The image encoder and the batched sender on their own: the row streaming   *)
(* of print_image for many images and batch sizes.                            *)

\* all rows of w pixels that are black (0) or white (255)
RowsOfWidth(w) == [1..w -> {0, 255}]

\* rows wider than one byte: 9 and 16 pixels
WideRows == { [x \in 1..9 |-> 255],
              [x \in 1..9 |-> IF x = 9 THEN 0 ELSE 255],
              [x \in 1..9 |-> IF x = 1 THEN 0 ELSE 255],
              [x \in 1..16 |-> IF x % 2 = 1 THEN 0 ELSE 255],
              [x \in 1..16 |-> IF x > 8 THEN 0 ELSE 255] }

EncImages ==
    UNION { { [width |-> w, rows |-> r] : r \in SeqsUpTo(RowsOfWidth(w), MaxRows) }
            : w \in 1..MaxWidth }
      \cup { [width |-> 8, rows |-> r] : r \in SeqsUpTo(RowSamples, MaxEncRows) }
      \cup { [width |-> Len(r), rows |-> << r >>] : r \in WideRows }
      \cup { [width |-> 96, rows |-> << [x \in 1..96 |-> 255] >>] }

InitEncode ==
    /\ packetbuf = <<>>
    /\ rx = <<>>
    /\ written = <<>>
    /\ tpc = "idle"
    /\ respcode = 0
    /\ rounds = 0
    /\ resp = None
    /\ exc = ""
    /\ lastPackets = <<>>
    /\ lastret = None
    /\ nret = 0
    /\ jpc = "rows"
    /\ image \in EncImages
    /\ batch_size \in 1..MaxBatch
    /\ density = 3
    /\ emitted = 0
    /\ arg = None
    /\ endfails = 0
    /\ NoOp
    /\ NoTransport

NextEncode == SendRows

SpecEncode == InitEncode /\ [][NextEncode]_vars

\* the rows have been streamed
RowsSent == jpc = "end_page_print"

Height == Len(image.rows)

\* the source pixel x (1-based) of row y (1-based) is background: it gets no ink
Background(y, x) == image.rows[y][x] = 255

\* the packets decoded from everything written to the transport
WrittenPackets ==
    LET fs == FramesOfAll(written) IN [i \in 1..Len(fs) |-> from_bytes(fs[i]).packet]

(* C12: the encoder emits PRINT_EMPTY_ROW (0x84) for row y exactly when every *)
(* pixel of row y is background, with a payload of exactly the 2-byte         *)
(* big-endian row index followed by the repeat byte 1; every other row gives  *)
(* a PRINT_BITMAP_ROW (0x85) command.                                         *)
C12_EmptyRowIffBackground ==
    RowsSent =>
        /\ Len(WrittenPackets) = Height
        /\ \A y \in 1..Height :
              IF \A x \in 1..image.width : Background(y, x)
              THEN WrittenPackets[y] =
                     Packet(132, << (y - 1) \div 256, (y - 1) % 256, 1 >>)
              ELSE WrittenPackets[y].type = 133

C12_Witness ==
    /\ RowsSent
    /\ Height = 2
    /\ image.width = 3
    /\ \A x \in 1..3 : Background(1, x)
    /\ Background(2, 1) /\ ~Background(2, 2)
    /\ WrittenPackets[1].type = 132
    /\ WrittenPackets[2].type = 133

\* 2^n
RECURSIVE Pow2(_)
Pow2(n) == IF n = 0 THEN 1 ELSE 2 * Pow2(n - 1)

\* the byte k (0-based) of row y as the layout puts it: pixel x (0-based) at
\* bit 7 - x mod 8 of byte x div 8, the bits past the width zero
PackedByte(y, k) ==
    LET xs == { x \in 0..(image.width - 1) : x \div 8 = k /\ ~Background(y, x + 1) }
        RECURSIVE Sum(_)
        Sum(S) == IF S = {} THEN 0
                  ELSE LET x == CHOOSE e \in S : TRUE
                       IN Pow2(7 - (x % 8)) + Sum(S \ {x})
    IN Sum(xs)

(* C13: a bitmap-row payload is the 2-byte big-endian row index, three zero   *)
(* bytes, the repeat byte 1, then ceil(W/8) bytes of packed pixels with pixel *)
(* x at bit (7 - x mod 8) of byte floor(x/8) and the unused low bits of the   *)
(* last byte zero (right padding).                                            *)
C13_BitmapRowLayout ==
    RowsSent =>
        \A y \in 1..Height :
            (Len(WrittenPackets) = Height /\ WrittenPackets[y].type = 133) =>
                WrittenPackets[y].data =
                    << (y - 1) \div 256, (y - 1) % 256, 0, 0, 0, 1 >>
                        \o [k \in 1..((image.width + 7) \div 8) |-> PackedByte(y, k - 1)]

(* C14: an image of H rows gives exactly H row commands, with the row indices *)
(* 0..H-1 strictly ascending, and they reach the transport in that order.     *)
C14_RowsInOrder ==
    RowsSent =>
        LET fs == FramesOfAll(written) IN
        /\ Len(fs) = Height
        /\ \A i \in 1..Len(fs) :
              /\ fs[i][3] \in {132, 133}
              /\ fs[i][5] * 256 + fs[i][6] = i - 1

C14_Witness ==
    /\ RowsSent
    /\ Height = 4
    /\ batch_size = 3
    /\ Len(FramesOfAll(written)) = 4
    /\ FramesOfAll(written)[4][6] = 3

(* C16: during row streaming every write carries batch_size consecutive rows, *)
(* except the last, which carries between 1 and batch_size; there are exactly *)
(* ceil(H / batch_size) writes and none of them is empty.                     *)
C16_BatchShape ==
    RowsSent =>
        /\ Len(written) = (Height + batch_size - 1) \div batch_size
        /\ \A i \in 1..Len(written) :
              LET fs == FramesOf(written[i]) IN
              /\ written[i] /= <<>>
              /\ IF i < Len(written) THEN Len(fs) = batch_size
                 ELSE Len(fs) \in 1..batch_size
              /\ \A j \in 1..Len(fs) :
                    fs[j][5] * 256 + fs[j][6] = (i - 1) * batch_size + j - 1

C16_Witness ==
    /\ RowsSent
    /\ Height = 4
    /\ batch_size = 3
    /\ Len(written) = 2
    /\ Len(FramesOf(written[1])) = 3
    /\ Len(FramesOf(written[2])) = 1

\* all the bytes of a sequence of byte strings, in order
RECURSIVE Concat(_)
Concat(ss) == IF ss = <<>> THEN <<>> ELSE Head(ss) \o Concat(Tail(ss))

(* C17: the concatenation of all bytes written during row streaming is the    *)
(* concatenation of each row's encoded frame in row order, whatever the batch *)
(* size (so it is the same for any two batch sizes >= 1).                     *)
C17_BatchingKeepsBytes ==
    RowsSent =>
        Concat(written) =
            Concat([y \in 1..Height |-> to_bytes(EncodeRow(image.rows[y], y - 1))])

C17_Witness ==
    /\ RowsSent
    /\ Height = 4
    /\ batch_size = 3
    /\ Len(written) = 2
    /\ Len(Concat(written)) > Len(written[1])

---------------------------------------------------------------------------
(* A damaged frame on the line: the device sends the frame of a packet with   *)
(* one bit of its type byte or of a payload byte flipped and the checksum     *)
(* left as it was, alone or followed by the undamaged frame; the client       *)
(* calls _recv, and calls it again after an exception.                        *)

\* byte v with bit b (0 = lowest) flipped
FlipBit(v, b) ==
    IF (v \div Pow2(b)) % 2 = 1 THEN v - Pow2(b) ELSE v + Pow2(b)

\* frame with bit b of its byte at position i (1-based) flipped
Damage(frame, i, b) == [frame EXCEPT ![i] = FlipBit(frame[i], b)]

\* the positions of the type byte and of the payload bytes of the frame of p
TypeAndPayload(p) == {3} \cup (5..(4 + Len(p.data)))

InitNoise ==
    /\ packetbuf = <<>>
    /\ rx = <<>>
    /\ written = <<>>
    /\ tpc = "idle"
    /\ respcode = 0
    /\ rounds = 0
    /\ resp = None
    /\ exc = ""
    /\ lastPackets = <<>>
    /\ lastret = None
    /\ nret = 0
    /\ jpc = "noise"
    /\ image = [width |-> 0, rows |-> <<>>]
    /\ batch_size = 1
    /\ density = 3
    /\ emitted = 0
    /\ arg \in { Packet(t, d) : t \in TypeSamples, d \in SeqsUpTo(ByteSamples, MaxPayload) }
    /\ endfails = 0
    /\ NoOp
    /\ NoTransport

\* the device's bytes arrive: the damaged frame of arg, then perhaps its
\* undamaged frame
NoisyFrame ==
    /\ jpc = "noise"
    /\ tpc = "idle"
    /\ \E i \in TypeAndPayload(arg), b \in 0..7, n \in 1..2 :
          /\ rx' = Damage(to_bytes(arg), i, b)
                      \o (IF n = 2 THEN to_bytes(arg) ELSE <<>>)
          /\ emitted' = n
    /\ tpc' = "sent"
    /\ UNCHANGED <<packetbuf, written, respcode, rounds, resp, exc, lastPackets,
                   lastret, nret, jpc, image, batch_size, density, arg, endfails, opVars, bleVars>>

\* _recv(), the first call or a call after the one before raised; rounds
\* counts the calls
NoiseRecv ==
    /\ jpc = "noise"
    /\ tpc \in {"sent", "received", "raised"}
    /\ rounds < MaxRecv
    /\ LET n == Min(Len(rx), ReadMax)
           r == RecvOf(packetbuf, SubSeq(rx, 1, n))
       IN  /\ rx' = SubSeq(rx, n + 1, Len(rx))
           /\ packetbuf' = r.buf
           /\ lastPackets' = r.packets
           /\ exc' = IF r.status = "corrupt" THEN "CorruptFrameError" ELSE ""
           /\ tpc' = IF r.status = "ret" THEN "received"
                     ELSE IF r.status = "spin" THEN "spin" ELSE "raised"
    /\ rounds' = rounds + 1
    /\ UNCHANGED <<written, respcode, resp, lastret, nret, jpc, image,
                   batch_size, density, emitted, arg, endfails, opVars, bleVars>>

NextNoise == NoisyFrame \/ NoiseRecv

SpecNoise == InitNoise /\ [][NextNoise]_vars

\* the bytes _recv has taken off the head of the accumulator so far
Consumed == emitted * (Len(arg.data) + 7) - Len(rx) - Len(packetbuf)

\* a whole frame with a wrong checksum is at the head of the accumulator
HeadCorrupt ==
    /\ Len(packetbuf) >= 7
    /\ Len(packetbuf) >= packetbuf[4] + 7
    /\ ~from_bytes(SubSeq(packetbuf, 1, packetbuf[4] + 7)).ok

(* C18: a frame with any single bit of its type byte or of a payload byte     *)
(* flipped, the checksum not recomputed, makes decoding report a checksum     *)
(* error, and the length consumed is still payload length + 7.                *)
C18_BitFlipReported ==
    (jpc = "noise" /\ rounds = 1) =>
        /\ tpc = "raised"
        /\ exc = "CorruptFrameError"
        /\ Consumed = Len(arg.data) + 7

(* C19: when the frame at the head of the accumulator fails its checksum the  *)
(* client still removes its buffer[3] + 7 bytes, so that the damaged frame    *)
(* does not stay at the head and a valid frame behind it is decoded.          *)
C19_CorruptHeadRemoved ==
    (jpc = "noise" /\ rounds >= 1) =>
        /\ ~HeadCorrupt
        /\ (emitted = 2 /\ rounds = 2) => (packetbuf = <<>> /\ lastPackets = << arg >>)

(* C20: encoding a packet whose payload is longer than 255 bytes fails with   *)
(* an encoding error, and nothing is written to the transport.                *)
C20_OversizeNotWritten ==
    (jpc = "codec" /\ Len(arg.data) > 255 /\ tpc /= "idle") =>
        /\ tpc = "raised"
        /\ exc = "EncodingError"
        /\ written = <<>>
        /\ rx = <<>>

C20_Witness ==
    /\ jpc = "codec"
    /\ Len(arg.data) = 256
    /\ tpc = "raised"
    /\ exc = "EncodingError"
    /\ written = <<>>

---------------------------------------------------------------------------
(* The device operations of PrinterClient, each called on its own on a fresh  *)
(* client, and print_image among them.                                        *)

DeviceOps == {"get_info", "get_rfid", "heartbeat", "set_label_type",
              "set_label_density", "start_print", "end_print", "start_page_print",
              "end_page_print", "allow_print_clear", "set_dimension", "set_quantity",
              "get_print_status"}

\* the operations that end with return bool(packet.data[0])
BoolOps == {"set_label_type", "set_label_density", "start_print", "end_print",
            "start_page_print", "end_page_print", "allow_print_clear",
            "set_dimension", "set_quantity"}

\* InfoEnum
InfoKeys == {1, 2, 3, 6, 7, 8, 9, 10, 11, 12}

\* the arguments an operation is called with (0 where it takes none)
OpArgs(o) ==
    CASE o = "get_info" -> InfoKeys
      [] o = "set_label_type" -> 0..4
      [] o = "set_label_density" -> 0..6
      [] o = "set_dimension" -> { <<1, 8>>, <<300, 96>> }
      [] o = "set_quantity" -> {1, 258}
      [] OTHER -> {0}

\* the request code each operation passes to _transceive
OpReq(o) ==
    CASE o = "get_info" -> GET_INFO
      [] o = "get_rfid" -> GET_RFID
      [] o = "heartbeat" -> HEARTBEAT
      [] o = "set_label_type" -> SET_LABEL_TYPE
      [] o = "set_label_density" -> SET_LABEL_DENSITY
      [] o = "start_print" -> START_PRINT
      [] o = "end_print" -> END_PRINT
      [] o = "start_page_print" -> START_PAGE_PRINT
      [] o = "end_page_print" -> END_PAGE_PRINT
      [] o = "allow_print_clear" -> ALLOW_PRINT_CLEAR
      [] o = "set_dimension" -> SET_DIMENSION
      [] o = "set_quantity" -> SET_QUANTITY
      [] o = "get_print_status" -> GET_PRINT_STATUS

\* (a variant in which every operation leaves respoffset at its default)
OpOffsetDefault(o, a) == 1

\* (a variant in which every operation passes 16)
OpOffsetSixteen(o, a) == 16

\* the respoffset each operation passes to _transceive (1 if it passes none)
OpOffset(o, a) ==
    CASE o = "get_info" -> a
      [] o \in {"set_label_type", "set_label_density", "allow_print_clear",
                "get_print_status"} -> 16
      [] OTHER -> 1

\* the data each operation passes to _transceive
OpData(o, a) ==
    CASE o = "get_info" -> << a >>
      [] o \in {"set_label_type", "set_label_density"} -> << a >>
      [] o = "set_dimension" -> PackH(a[1]) \o PackH(a[2])
      [] o = "set_quantity" -> PackH(a)
      [] OTHER -> << 1 >>

\* (a variant that accepts every argument)
OpArgOkAlways(o, a) == TRUE

\* the assert at the head of set_label_type and of set_label_density
OpArgOk(o, a) ==
    CASE o = "set_label_type" -> 1 <= a /\ a <= 3
      [] o = "set_label_density" -> 1 <= a /\ a <= 5
      [] OTHER -> TRUE

\* a field of the heartbeat record that is None
Unset == -1

\* (a variant that reads the fields of a 9-byte and a 20-byte payload one
\* byte early)
HeartbeatOfEarly(data) ==
    LET n == Len(data)
        at(i) == data[i + 1]
    IN  CASE n = 20 -> [kind |-> "heartbeat", closingstate |-> Unset, powerlevel |-> Unset,
                        paperstate |-> at(17), rfidreadstate |-> at(18)]
          [] n = 13 -> [kind |-> "heartbeat", closingstate |-> at(9), powerlevel |-> at(10),
                        paperstate |-> at(11), rfidreadstate |-> at(12)]
          [] n = 19 -> [kind |-> "heartbeat", closingstate |-> at(15), powerlevel |-> at(16),
                        paperstate |-> at(17), rfidreadstate |-> at(18)]
          [] n = 10 -> [kind |-> "heartbeat", closingstate |-> at(8), powerlevel |-> at(9),
                        paperstate |-> Unset, rfidreadstate |-> at(8)]
          [] n = 9 -> [kind |-> "heartbeat", closingstate |-> at(7), powerlevel |-> Unset,
                       paperstate |-> Unset, rfidreadstate |-> Unset]
          [] OTHER -> [kind |-> "heartbeat", closingstate |-> Unset, powerlevel |-> Unset,
                       paperstate |-> Unset, rfidreadstate |-> Unset]

\* (a variant that takes a payload of 12 bytes for one of 13)
HeartbeatOfTwelve(data) ==
    LET n == Len(data)
        at(i) == data[i + 1]
    IN  CASE n = 20 -> [kind |-> "heartbeat", closingstate |-> Unset, powerlevel |-> Unset,
                        paperstate |-> at(18), rfidreadstate |-> at(19)]
          [] n \in {12, 13} ->
                       [kind |-> "heartbeat", closingstate |-> at(9), powerlevel |-> at(10),
                        paperstate |-> at(11), rfidreadstate |-> at(n - 1)]
          [] n = 19 -> [kind |-> "heartbeat", closingstate |-> at(15), powerlevel |-> at(16),
                        paperstate |-> at(17), rfidreadstate |-> at(18)]
          [] n = 10 -> [kind |-> "heartbeat", closingstate |-> at(8), powerlevel |-> at(9),
                        paperstate |-> Unset, rfidreadstate |-> at(8)]
          [] n = 9 -> [kind |-> "heartbeat", closingstate |-> at(8), powerlevel |-> Unset,
                       paperstate |-> Unset, rfidreadstate |-> Unset]
          [] OTHER -> [kind |-> "heartbeat", closingstate |-> Unset, powerlevel |-> Unset,
                       paperstate |-> Unset, rfidreadstate |-> Unset]

\* heartbeat: the match on len(packet.data) and the record returned;
\* at(i) is packet.data[i]
HeartbeatOf(data) ==
    LET n == Len(data)
        at(i) == data[i + 1]
    IN  CASE n = 20 -> [kind |-> "heartbeat", closingstate |-> Unset, powerlevel |-> Unset,
                        paperstate |-> at(18), rfidreadstate |-> at(19)]
          [] n = 13 -> [kind |-> "heartbeat", closingstate |-> at(9), powerlevel |-> at(10),
                        paperstate |-> at(11), rfidreadstate |-> at(12)]
          [] n = 19 -> [kind |-> "heartbeat", closingstate |-> at(15), powerlevel |-> at(16),
                        paperstate |-> at(17), rfidreadstate |-> at(18)]
          [] n = 10 -> [kind |-> "heartbeat", closingstate |-> at(8), powerlevel |-> at(9),
                        paperstate |-> Unset, rfidreadstate |-> at(8)]
          [] n = 9 -> [kind |-> "heartbeat", closingstate |-> at(8), powerlevel |-> Unset,
                       paperstate |-> Unset, rfidreadstate |-> Unset]
          [] OTHER -> [kind |-> "heartbeat", closingstate |-> Unset, powerlevel |-> Unset,
                       paperstate |-> Unset, rfidreadstate |-> Unset]

\* _packet_to_int: int.from_bytes(x.data, "big")
RECURSIVE BytesToInt(_, _)
BytesToInt(d, acc) == IF d = <<>> THEN acc ELSE BytesToInt(Tail(d), 256 * acc + Head(d))

PacketToInt(data) == BytesToInt(data, 0)

\* bytes.hex(): two lower-case hexadecimal digits for each byte
HexDigits == << "0", "1", "2", "3", "4", "5", "6", "7", "8", "9",
                "a", "b", "c", "d", "e", "f" >>

HexOf(data) ==
    [i \in 1..(2 * Len(data)) |->
        IF i % 2 = 1 THEN HexDigits[(data[(i + 1) \div 2] \div 16) + 1]
        ELSE HexDigits[(data[i \div 2] % 16) + 1]]

\* (a variant that returns the versions as the integer, not divided by 100)
InfoOfUnscaled(key, data) ==
    CASE key = 11 -> [kind |-> "hex", value |-> HexOf(data)]
      [] OTHER -> [kind |-> "int", value |-> PacketToInt(data)]

\* get_info: the match on key
InfoOf(key, data) ==
    CASE key = 11 -> [kind |-> "hex", value |-> HexOf(data)]
      [] key \in {9, 12} -> [kind |-> "int/100", value |-> PacketToInt(data)]
      [] OTHER -> [kind |-> "int", value |-> PacketToInt(data)]

\* data[i:j] of Python, i and j 0-based
Slice(data, i, j) == SubSeq(data, i + 1, Min(j, Len(data)))

\* get_rfid after the call: the exception it raises or the value it returns
\* (the barcode and the serial are ASCII in every payload of the model)
RfidOf(data) ==
    IF Len(data) = 0 THEN [exc |-> "IndexError", result |-> NoResult]
    ELSE IF data[1] = 0 THEN [exc |-> "", result |-> NoResult]
    ELSE IF Len(data) <= 8 THEN [exc |-> "IndexError", result |-> NoResult]
    ELSE LET barcode_len == data[9]
             idx == 9 + barcode_len
         IN  IF Len(data) <= idx THEN [exc |-> "IndexError", result |-> NoResult]
             ELSE LET serial_len == data[idx + 1]
                      idx2 == idx + 1 + serial_len
                      rest == Slice(data, idx2, Len(data))
                  IN  IF Len(rest) /= 5 THEN [exc |-> "struct.error", result |-> NoResult]
                      ELSE [exc |-> "",
                            result |-> [kind |-> "rfid",
                                        uuid |-> Slice(data, 0, 8),
                                        barcode |-> Slice(data, 9, idx),
                                        serial |-> Slice(data, idx + 1, idx2),
                                        total_len |-> rest[1] * 256 + rest[2],
                                        used_len |-> rest[3] * 256 + rest[4],
                                        type |-> rest[5]]]

\* get_print_status after the call: struct.unpack(">HBB", packet.data)
StatusOf(data) ==
    IF Len(data) /= 4 THEN [exc |-> "struct.error", result |-> NoResult]
    ELSE [exc |-> "",
          result |-> [kind |-> "status", page |-> data[1] * 256 + data[2],
                      progress1 |-> data[3], progress2 |-> data[4]]]

\* what operation o makes of the value packet its _transceive call returned
OpResult(o, a, packet) ==
    IF o = "get_info"
    THEN (IF IsNone(packet) THEN [exc |-> "", result |-> NoResult]
          ELSE [exc |-> "", result |-> InfoOf(a, packet.data)])
    ELSE IF IsNone(packet) THEN [exc |-> "AttributeError", result |-> NoResult]
    ELSE IF o = "get_rfid" THEN RfidOf(packet.data)
    ELSE IF o = "heartbeat" THEN [exc |-> "", result |-> HeartbeatOf(packet.data)]
    ELSE IF o = "get_print_status" THEN StatusOf(packet.data)
    ELSE IF packet.data = <<>> THEN [exc |-> "IndexError", result |-> NoResult]
    ELSE [exc |-> "", result |-> [kind |-> "bool", value |-> packet.data[1] /= 0]]

\* payloads of n bytes that are all different: byte i is 100 + i
Numbered(n) == [i \in 1..n |-> 100 + i]

\* the payloads the device may answer an operation with
OpReplies(o) ==
    CASE o = "heartbeat" -> { Numbered(n) : n \in {0, 8, 9, 10, 12, 13, 19, 20, 21} }
      [] o = "get_rfid" -> { <<0>>, Numbered(8),
                             Numbered(8) \o <<1, 65, 1, 66, 0, 10, 0, 3, 2>> }
      [] o = "get_print_status" -> { <<0, 1, 50, 60>>, <<1>> }
      [] o = "get_info" -> { <<3>>, <<1, 44>> }
      [] OTHER -> { <<1>>, <<0>> }

\* the frames the device may send while the operation waits: answers of the
\* expected type, and frames of the types next to it
OpFrames ==
    { Packet(respcode, d) : d \in OpReplies(op) }
      \cup { Packet(t, <<1>>) :
                t \in { c \in { OpReq(op), OpReq(op) + 1, OpReq(op) + 16 } :
                           c /= respcode /\ c < 256 } }

InitOps ==
    /\ packetbuf = <<>>
    /\ rx = <<>>
    /\ written = <<>>
    /\ tpc = "idle"
    /\ respcode = 0
    /\ rounds = 0
    /\ resp = None
    /\ exc = ""
    /\ lastPackets = <<>>
    /\ lastret = None
    /\ nret = 0
    /\ jpc = "ops"
    /\ image = [width |-> 0, rows |-> <<>>]
    /\ batch_size = 1
    /\ density = 3
    /\ emitted = 0
    /\ arg = None
    /\ endfails = 0
    /\ NoOp
    /\ NoTransport

\* a device operation is called: its assert, and its _transceive call up to
\* the first _recv
OpCall ==
    /\ jpc = "ops"
    /\ opc = "idle"
    /\ \E o \in DeviceOps : \E a \in OpArgs(o) :
          /\ op' = o
          /\ opArg' = a
          /\ IF OpArgOk(o, a)
             THEN /\ TransceiveSend(OpReq(o), OpData(o, a), OpOffset(o, a))
                  /\ opc' = "called"
             ELSE /\ opc' = "raised"
                  /\ exc' = "AssertionError"
                  /\ UNCHANGED <<written, tpc, respcode, rounds, resp, lastPackets>>
    /\ UNCHANGED <<packetbuf, rx, lastret, nret, jpc, image, batch_size, density,
                   emitted, arg, endfails, result, bleVars>>

\* the images print_image is called with: one white row of 300 pixels, and
\* two rows of 8 pixels
PrintImages ==
    { [width |-> 300, rows |-> << [x \in 1..300 |-> 255] >>],
      [width |-> 8, rows |-> << [x \in 1..8 |-> 255],
                                [x \in 1..8 |-> IF x % 2 = 1 THEN 0 ELSE 255] >>] }

\* print_image(image, density) is called
PrintCall ==
    /\ jpc = "ops"
    /\ opc = "idle"
    /\ op' = "print_image"
    /\ opc' = "called"
    /\ \E d \in Densities : density' = d /\ opArg' = d
    /\ image' \in PrintImages
    /\ jpc' = "density"
    /\ UNCHANGED <<packetbuf, rx, written, tpc, respcode, rounds, resp, exc, lastPackets,
                   lastret, nret, batch_size, emitted, arg, endfails, result, bleVars>>

\* the device sends a frame while the operation waits
OpDevice ==
    /\ jpc = "ops"
    /\ opc = "called"
    /\ tpc = "recv"
    /\ emitted < MaxOpEmit
    /\ \E f \in OpFrames : rx' = rx \o to_bytes(f)
    /\ emitted' = emitted + 1
    /\ UNCHANGED <<packetbuf, written, tpc, respcode, rounds, resp, exc, lastPackets,
                   lastret, nret, jpc, image, batch_size, density, arg, endfails,
                   opVars, bleVars>>

\* the lengths of the prefixes of bytes that end where a frame ends
RECURSIVE FrameEnds(_, _)
FrameEnds(bytes, at) ==
    IF Len(bytes) - at < FrameOverhead THEN {at}
    ELSE {at} \cup FrameEnds(bytes, at + bytes[at + 4] + FrameOverhead)

\* a round of _transceive whose read returns whole frames: some of the frames
\* the device has sent, or nothing
OpRecv ==
    /\ jpc = "ops"
    /\ \E n \in FrameEnds(rx, 0) : n <= ReadMax /\ ReadRound(n)

\* the operation goes on after its _transceive call and returns or raises
OpReturn ==
    /\ jpc = "ops"
    /\ opc = "called"
    /\ tpc \in {"returned", "raised"}
    /\ tpc' = "idle"
    /\ IF tpc = "raised"
       THEN opc' = "raised" /\ UNCHANGED <<exc, result, lastret, nret>>
       ELSE LET r == OpResult(op, opArg, resp) IN
            /\ opc' = IF r.exc = "" THEN "returned" ELSE "raised"
            /\ exc' = r.exc
            /\ result' = r.result
            /\ lastret' = resp
            /\ nret' = IF IsNone(resp) THEN nret ELSE nret + 1
    /\ UNCHANGED <<packetbuf, rx, written, respcode, rounds, resp, lastPackets, jpc,
                   image, batch_size, density, emitted, arg, endfails, op, opArg, bleVars>>

\* a round of _transceive inside print_image
JobRecv == jpc \in Steps /\ RecvRound

NextOps ==
    \/ OpCall \/ PrintCall \/ OpDevice \/ OpRecv \/ OpReturn
    \/ JobStep \/ DeviceAnswer \/ JobRecv \/ JobResume \/ SendRows

SpecOps == InitOps /\ [][NextOps]_vars

(* C21: set_label_density(n) with n outside 1..5 and set_label_type(n) with n *)
(* outside 1..3 fail before any I/O: nothing is written to the transport,     *)
(* nothing is read from it and the accumulator is as it was; print_image with *)
(* a density outside 1..5 fails before it sends any command.                  *)
C21_BadArgumentNoIO ==
    LET bad == \/ op = "set_label_density" /\ opArg \notin 1..5
               \/ op = "set_label_type" /\ opArg \notin 1..3
               \/ op = "print_image" /\ opArg \notin 1..5
        quiet == /\ written = <<>>
                 /\ rounds = 0
                 /\ tpc = "idle"
                 /\ packetbuf = <<>>
                 /\ lastPackets = <<>>
    IN  bad => /\ quiet
               /\ exc \in {"", "AssertionError"}
               /\ op = "print_image" => jpc \in {"density", "raised"}
               /\ op /= "print_image" => (opc = "raised" /\ exc = "AssertionError")

C21_Witness ==
    /\ op = "set_label_type"
    /\ opArg = 4
    /\ opc = "raised"
    /\ exc = "AssertionError"
    /\ written = <<>>

IsExpected(p) == p.type = respcode

\* the packets of the expected response type among those the last _recv decoded
ExpectedIn == SelectSeq(lastPackets, IsExpected)

(* C22: when several frames of the expected response type are decoded in the *)
(* same receive round, _transceive returns the last of them, and all frames   *)
(* of that round have been removed from the accumulator when it returns.      *)
C22_LastMatchWins ==
    (jpc = "ops" /\ tpc = "returned" /\ ExpectedIn /= <<>>) =>
        /\ resp = ExpectedIn[Len(ExpectedIn)]
        /\ packetbuf = <<>>

C22_Witness ==
    /\ jpc = "ops"
    /\ tpc = "returned"
    /\ Len(ExpectedIn) = 2
    /\ ExpectedIn[1] /= ExpectedIn[2]
    /\ resp = ExpectedIn[2]
    /\ Len(lastPackets) = 2

\* the command code table: the request code of each operation
TableCode ==
    [o \in DeviceOps |->
        CASE o = "get_info" -> 64
          [] o = "get_rfid" -> 26
          [] o = "heartbeat" -> 220
          [] o = "set_label_type" -> 35
          [] o = "set_label_density" -> 33
          [] o = "start_print" -> 1
          [] o = "end_print" -> 243
          [] o = "start_page_print" -> 3
          [] o = "end_page_print" -> 227
          [] o = "allow_print_clear" -> 32
          [] o = "set_dimension" -> 19
          [] o = "set_quantity" -> 21
          [] o = "get_print_status" -> 163]

\* the command code table: the response offset of the operation in progress
TableOffset ==
    IF op = "get_info" THEN opArg
    ELSE IF op \in {"set_label_type", "set_label_density", "allow_print_clear",
                    "get_print_status"} THEN 16
    ELSE 1

(* C23: each device operation writes the request code of the command table    *)
(* and accepts as its response exactly the type request code + offset: 16 for *)
(* SET_LABEL_TYPE, SET_LABEL_DENSITY, ALLOW_PRINT_CLEAR and GET_PRINT_STATUS, *)
(* the queried key for GET_INFO, 1 for the other operations.                  *)
C23_CommandTable ==
    (jpc = "ops" /\ op \in DeviceOps /\ written /= <<>>) =>
        /\ Len(written) = 1
        /\ written[1][3] = TableCode[op]
        /\ respcode = TableCode[op] + TableOffset
        /\ (tpc = "returned" /\ ~IsNone(resp)) => resp.type = TableCode[op] + TableOffset
        /\ \A i \in 1..Len(lastPackets) :
              (tpc = "returned" /\ IsNone(resp)) =>
                    lastPackets[i].type /= TableCode[op] + TableOffset

C23_Witness ==
    /\ jpc = "ops"
    /\ op = "get_print_status"
    /\ opc = "returned"
    /\ lastret.type = 179
    /\ written[1][3] = 163
    /\ emitted = 2

\* the frames written so far whose type is SET_DIMENSION's
DimensionFrames ==
    LET IsDimension(f) == f[3] = 19 IN SelectSeq(FramesOfAll(written), IsDimension)

(* C24: print_image sends the SET_DIMENSION payload as two 16-bit big-endian  *)
(* fields, the image height first and the image width second.                 *)
C24_HeightThenWidth ==
    (op = "print_image" /\ jpc \in {"rows", "end_page_print", "end_print", "done"}) =>
        LET h == Len(image.rows)
            w == image.width
        IN  DimensionFrames =
              << <<85, 85, 19, 4>>
                   \o << h \div 256, h % 256, w \div 256, w % 256 >>
                   \o << Checksum(19, << h \div 256, h % 256, w \div 256, w % 256 >>),
                         170, 170 >> >>

C24_Witness ==
    /\ op = "print_image"
    /\ jpc = "done"
    /\ image.width = 300
    /\ Len(image.rows) = 1
    /\ DimensionFrames[1][5] = 0 /\ DimensionFrames[1][6] = 1
    /\ DimensionFrames[1][7] = 1 /\ DimensionFrames[1][8] = 44

\* heartbeat has got a response and has gone on with it
HeartbeatAnswered == op = "heartbeat" /\ opc \in {"returned", "raised"} /\ ~IsNone(lastret)

(* C25: a heartbeat response payload of length 9 yields closingstate =        *)
(* payload[8] with powerlevel, paperstate and rfidreadstate unset; a payload  *)
(* of length 20 yields paperstate = payload[18] and rfidreadstate =           *)
(* payload[19] with closingstate and powerlevel unset.                        *)
C25_HeartbeatNineAndTwenty ==
    HeartbeatAnswered =>
        LET payload == lastret.data IN
        /\ Len(payload) = 9 =>
              /\ opc = "returned"
              /\ result.closingstate = payload[9]
              /\ result.powerlevel = -1
              /\ result.paperstate = -1
              /\ result.rfidreadstate = -1
        /\ Len(payload) = 20 =>
              /\ opc = "returned"
              /\ result.paperstate = payload[19]
              /\ result.rfidreadstate = payload[20]
              /\ result.closingstate = -1
              /\ result.powerlevel = -1

C25_Witness ==
    /\ HeartbeatAnswered
    /\ Len(lastret.data) = 20
    /\ result.paperstate = 119
    /\ result.rfidreadstate = 120

\* the payload lengths heartbeat knows
KnownLengths == {9, 10, 13, 19, 20}

\* the record of a heartbeat in which no field is set
AllUnset ==
    [kind |-> "heartbeat", closingstate |-> -1, powerlevel |-> -1,
     paperstate |-> -1, rfidreadstate |-> -1]

(* C26: the five heartbeat payload lengths 9, 10, 13, 19 and 20 each select   *)
(* their own field layout, and a response whose payload length is none of     *)
(* them yields a record with all four fields unset, without raising.          *)
C26_HeartbeatLayouts ==
    HeartbeatAnswered =>
        /\ opc = "returned"
        /\ exc = ""
        /\ IF Len(lastret.data) \in KnownLengths
           THEN /\ result /= AllUnset
                /\ \A n \in KnownLengths \ { Len(lastret.data) } :
                      result /= HeartbeatOf([i \in 1..n |-> 100 + i])
           ELSE result = AllUnset

C26_Witness ==
    /\ HeartbeatAnswered
    /\ Len(lastret.data) = 12
    /\ result = AllUnset
    /\ opc = "returned"

\* the value of a payload of one or two bytes read as a big-endian integer
BigEndian(data) ==
    IF Len(data) = 1 THEN data[1] ELSE 256 * data[1] + data[2]

\* C35: get_info(key) writes GET_INFO with the payload key, takes only a frame
\* of type 0x40 + key for its response, returns None without raising when the
\* rounds end without one, and else returns the payload in hexadecimal for the
\* device serial (key 11), the big-endian integer over 100 for the soft and
\* hard version (keys 9 and 12), and the big-endian integer for the other keys.
C35_GetInfo ==
    op = "get_info" /\ opc /= "idle" =>
        /\ written = << <<85, 85, 64, 1, opArg>> \o
                        <<Checksum(64, <<opArg>>), 170, 170>> >>
        /\ respcode = 64 + opArg
        /\ (tpc = "returned" /\ ~IsNone(resp) => resp.type = 64 + opArg)
        /\ (opc = "raised" => exc \in {"ValueError", "NotImplementedError"})
        /\ (opc = "returned" /\ IsNone(lastret) =>
               rounds = MaxAttempts /\ result = NoResult)
        /\ (opc = "returned" /\ ~IsNone(lastret) =>
               LET data == lastret.data IN
               CASE opArg = 11 ->
                      /\ result.kind = "hex"
                      /\ (data = <<3>> => result.value = <<"0", "3">>)
                      /\ (data = <<1, 44>> => result.value = <<"0", "1", "2", "c">>)
                 [] opArg \in {9, 12} ->
                      result = [kind |-> "int/100", value |-> BigEndian(data)]
                 [] OTHER ->
                      result = [kind |-> "int", value |-> BigEndian(data)])

\* get_info(SOFTVERSION) has returned 300 / 100 for the payload 01 2C
C35_Witness ==
    /\ op = "get_info"
    /\ opArg = 9
    /\ opc = "returned"
    /\ lastret = Packet(64 + 9, <<1, 44>>)
    /\ result = [kind |-> "int/100", value |-> 300]

\* the operations other than the one in progress, get_info counted once for
\* each key
OtherOps ==
    { oa \in { <<o, a>> : o \in DeviceOps, a \in InfoKeys \cup {0} } :
         /\ (oa[1] = "get_info") = (oa[2] \in InfoKeys)
         /\ oa[1] /= op \/ (op = "get_info" /\ oa[2] /= opArg) }

\* C39: the response code of the operation in progress, request code plus
\* offset, is in 1..255, is neither 0xDB nor 0x00, and is the response code of
\* no other operation of the table (get_info taken with each key of InfoEnum).
C39_ResponseCodesDistinct ==
    jpc = "ops" /\ op \in DeviceOps /\ written /= <<>> =>
        /\ respcode = written[1][3] + TableOffset
        /\ respcode \in 1..255
        /\ respcode \notin {219, 0}
        /\ \A oa \in OtherOps : OpReq(oa[1]) + OpOffset(oa[1], oa[2]) /= respcode

\* heartbeat, whose response code 0xDD is the nearest to 0xDB, has returned
\* its response
C39_Witness ==
    /\ jpc = "ops"
    /\ op = "heartbeat"
    /\ opc = "returned"
    /\ respcode = 221
    /\ ~IsNone(lastret)
    /\ lastret.type = 221

---------------------------------------------------------------------------
(* The transports. A transport object is a record: its backend (kind), the    *)
(* device it talks to, and the fields of the object. The BLE backend has a    *)
(* background thread that runs the event loop and the notification handler;   *)
(* the foreground makes one call at a time.                                   *)

Kinds == {"serial", "bluetooth", "bluetooth_osx", "ble"}

\* the backends that define close()
HasClose(kind) == kind \in {"ble", "bluetooth_osx"}

\* what the device is like: whether connect() succeeds, whether it has the
\* GATT service, whether the service has the characteristic
Devices == [reachable : BOOLEAN, service : BOOLEAN, characteristic : BOOLEAN]

GoodDevice == [reachable |-> TRUE, service |-> TRUE, characteristic |-> TRUE]

\* BLETransport.__init__ up to _start_event_loop; the other backends are taken
\* as constructed and connected
NewTransport(kind, device) ==
    [kind |-> kind,
     device |-> device,
     connected |-> kind /= "ble",
     read_buffer |-> <<>>,
     client |-> "none",
     loop |-> "none",
     subscribed |-> FALSE,
     channel |-> IF kind = "bluetooth_osx" THEN "open" ELSE "none",
     connects |-> 0,
     disconnects |-> 0,
     pending |-> <<>>,
     future |-> "none",
     wdata |-> <<>>,
     port |-> "",
     all_ports |-> <<>>,
     opened |-> <<>>]

\* the port argument of SerialTransport: "auto" (the default) or a device path
PortArgs == {"auto", "/dev/ttyUSB7"}

\* what list_comports() enumerates: no port, one port, or two
PortLists == { <<>>, <<"/dev/ttyACM0">>, <<"/dev/ttyACM1">>,
               <<"/dev/ttyACM0", "/dev/ttyACM1">> }

\* (a variant that takes the first port when there are several)
DetectPortFirst(all_ports) ==
    IF Len(all_ports) = 0 THEN [exc |-> "RuntimeError", port |-> ""]
    ELSE [exc |-> "", port |-> all_ports[1]]

\* SerialTransport._detect_port
DetectPort(all_ports) ==
    IF Len(all_ports) = 0 THEN [exc |-> "RuntimeError", port |-> ""]
    ELSE IF Len(all_ports) > 1 THEN [exc |-> "RuntimeError", port |-> ""]
    ELSE [exc |-> "", port |-> all_ports[1]]

\* (a variant that subscribes without looking for the service)
ConnectAsyncBlind(t) ==
    IF ~t.device.reachable
    THEN [exc |-> "RuntimeError",
          t |-> [t EXCEPT !.client = "disconnected", !.connects = @ + 1]]
    ELSE [exc |-> "",
          t |-> [t EXCEPT !.client = "connected", !.connects = @ + 1,
                          !.subscribed = TRUE, !.connected = TRUE]]

\* _connect_async: connect, look for the service and the characteristic,
\* subscribe, mark connected; on any exception disconnect if connected and
\* raise RuntimeError
ConnectAsync(t) ==
    IF ~t.device.reachable
    THEN [exc |-> "RuntimeError",
          t |-> [t EXCEPT !.client = "disconnected", !.connects = @ + 1]]
    ELSE IF ~t.device.service \/ ~t.device.characteristic
    THEN [exc |-> "RuntimeError",
          t |-> [t EXCEPT !.client = "disconnected", !.connects = @ + 1,
                          !.disconnects = @ + 1]]
    ELSE [exc |-> "",
          t |-> [t EXCEPT !.client = "connected", !.connects = @ + 1,
                          !.subscribed = TRUE, !.connected = TRUE]]

\* (a variant that lets every call through)
NotConnectedNever(t) == FALSE

\* if not self._connected: raise RuntimeError
NotConnected(t) == ~t.connected

\* (a variant that empties the buffer)
BufferCleared(buf, k) == <<>>

\* del self._read_buffer[:actual_length]
BufferAfterRead(buf, k) == SubSeq(buf, k + 1, Len(buf))

\* the lengths read is called with
ReadLengths == {1, 2, ReadMax}

\* the data write is called with
WriteSamples == { <<85, 85>>, <<1>> }

\* the data of call number n: its last byte is the number of the call
WriteData(n) == { Append(d, n) : d \in WriteSamples }

\* (a variant that does not wait for the future)
FutureDoneAlways(t) == TRUE

\* future.result(timeout=5.0) returns or raises what the coroutine raised
\* once the coroutine has ended
FutureDone(t) == t.future \notin {"none", "pending", "timeout"}

InitTransport ==
    /\ packetbuf = <<>>
    /\ rx = <<>>
    /\ written = <<>>
    /\ tpc = "idle"
    /\ respcode = 0
    /\ rounds = 0
    /\ resp = None
    /\ exc = ""
    /\ lastPackets = <<>>
    /\ lastret = None
    /\ nret = 0
    /\ jpc = "transport"
    /\ image = [width |-> 0, rows |-> <<>>]
    /\ batch_size = 1
    /\ density = 3
    /\ emitted = 0
    /\ arg = None
    /\ endfails = 0
    /\ NoOp
    /\ \E kind \in Kinds : \E device \in Devices :
          /\ (kind /= "ble" => device = GoodDevice)
          /\ IF kind = "serial"
             THEN \E port \in PortArgs : \E all_ports \in PortLists :
                     transport = [NewTransport(kind, device) EXCEPT
                                     !.port = port, !.all_ports = all_ports]
             ELSE transport = NewTransport(kind, device)
          /\ rpc = IF kind \in {"ble", "serial"} THEN "new" ELSE "idle"
    /\ lock = ""
    /\ hpc = "idle"
    /\ hdata = <<>>
    /\ rlen = 0
    /\ notified = <<>>
    /\ got = <<>>
    /\ lastread = <<>>
    /\ texc = ""
    /\ tcall = ""
    /\ tcalls = 0
    /\ closes = 0

\* BLETransport.__init__: _start_event_loop, then _connect_sync, which runs
\* _connect_async on the loop and raises what it raises (the 30 s limit of
\* future.result is not modelled)
BleInit ==
    /\ transport.kind = "ble"
    /\ rpc = "new"
    /\ LET c == ConnectAsync([transport EXCEPT !.loop = "running"]) IN
          /\ transport' = c.t
          /\ texc' = c.exc
          /\ rpc' = IF c.exc = "" THEN "idle" ELSE "failed"
    /\ tcall' = "init"
    /\ UNCHANGED <<clientVars, written, opVars, lock, hpc, hdata, rlen, notified, got,
                   lastread, tcalls, closes>>

\* SerialTransport.__init__: the port given, or with "auto" the port
\* _detect_port finds, is opened (the failures of serial.Serial itself are not
\* modelled)
SerialInit ==
    /\ transport.kind = "serial"
    /\ rpc = "new"
    /\ LET d == IF transport.port /= "auto"
                THEN [exc |-> "", port |-> transport.port]
                ELSE DetectPort(transport.all_ports)
       IN  /\ transport' = [transport EXCEPT
                               !.opened = IF d.exc = "" THEN Append(@, d.port)
                                          ELSE @]
           /\ texc' = d.exc
           /\ rpc' = IF d.exc = "" THEN "idle" ELSE "failed"
    /\ tcall' = "init"
    /\ UNCHANGED <<clientVars, written, opVars, lock, hpc, hdata, rlen, notified, got,
                   lastread, tcalls, closes>>

\* the device sends a notification: the loop thread calls _notification_handler.
\* The bytes of the notifications are numbered 1, 2, 3, ...
Notify ==
    /\ transport.kind = "ble"
    /\ transport.subscribed
    /\ transport.client = "connected"
    /\ transport.loop = "running"
    /\ hpc = "idle"
    /\ Len(notified) < 2 * MaxNotify
    /\ \E size \in 1..2 :
          LET data == [i \in 1..size |-> Len(notified) + i] IN
          /\ hdata' = data
          /\ notified' = notified \o data
    /\ hpc' = "called"
    /\ UNCHANGED <<clientVars, written, opVars, transport, lock, rpc, rlen, got,
                   lastread, texc, tcall, tcalls, closes>>

\* _notification_handler: with self._buffer_lock (acquire)
HandlerLock ==
    /\ hpc = "called"
    /\ lock = ""
    /\ lock' = "handler"
    /\ hpc' = "locked"
    /\ UNCHANGED <<clientVars, written, opVars, transport, hdata, rpc, rlen, notified,
                   got, lastread, texc, tcall, tcalls, closes>>

\* _notification_handler: self._read_buffer.extend(data), and the release
HandlerExtend ==
    /\ hpc = "locked"
    /\ transport' = [transport EXCEPT !.read_buffer = @ \o hdata]
    /\ lock' = ""
    /\ hpc' = "idle"
    /\ hdata' = <<>>
    /\ UNCHANGED <<clientVars, written, opVars, rpc, rlen, notified, got, lastread,
                   texc, tcall, tcalls, closes>>

\* bytes arrive at a backend that has no background thread
Deliver ==
    /\ transport.kind /= "ble"
    /\ transport.connected
    /\ rpc = "idle"
    /\ Len(notified) < 2 * MaxNotify
    /\ \E size \in 1..2 :
          LET data == [i \in 1..size |-> Len(notified) + i] IN
          /\ transport' = [transport EXCEPT !.read_buffer = @ \o data]
          /\ notified' = notified \o data
    /\ UNCHANGED <<clientVars, written, opVars, lock, hpc, hdata, rpc, rlen, got,
                   lastread, texc, tcall, tcalls, closes>>

\* read(length) is called. BLE: the check of _connected, then the polling
\* loop. macOS: the check, then the data buffered or TimeoutError. Serial and
\* socket: the bytes available, up to length (serial: none after its timeout)
ReadCall ==
    /\ rpc = "idle"
    /\ tcalls < MaxTCalls
    /\ tcall' = "read"
    /\ tcalls' = tcalls + 1
    /\ \E length \in ReadLengths :
        /\ rlen' = length
        /\ IF transport.kind \in {"ble", "bluetooth_osx"} /\ NotConnected(transport)
           THEN /\ texc' = "RuntimeError"
                /\ UNCHANGED <<transport, rpc, got, lastread>>
           ELSE IF transport.kind = "ble"
           THEN /\ texc' = ""
                /\ rpc' = "poll"
                /\ UNCHANGED <<transport, got, lastread>>
           ELSE IF transport.kind = "bluetooth_osx" /\ transport.read_buffer = <<>>
           THEN /\ texc' = "TimeoutError"
                /\ UNCHANGED <<transport, rpc, got, lastread>>
           ELSE LET k == Min(length, Len(transport.read_buffer))
                    data == SubSeq(transport.read_buffer, 1, k)
                IN  /\ texc' = ""
                    /\ lastread' = data
                    /\ got' = got \o data
                    /\ transport' = [transport EXCEPT
                                        !.read_buffer = BufferAfterRead(@, k)]
                    /\ UNCHANGED rpc
    /\ UNCHANGED <<clientVars, written, opVars, lock, hpc, hdata, notified, closes>>

\* BLE read: with self._buffer_lock (acquire)
ReadLock ==
    /\ rpc = "poll"
    /\ lock = ""
    /\ lock' = "read"
    /\ rpc' = "locked"
    /\ UNCHANGED <<clientVars, written, opVars, transport, hpc, hdata, rlen, notified,
                   got, lastread, texc, tcall, tcalls, closes>>

\* BLE read, under the lock: if the buffer has data, take min(length, len) of
\* it and return; in any case release the lock
ReadTake ==
    /\ rpc = "locked"
    /\ lock' = ""
    /\ IF Len(transport.read_buffer) > 0
       THEN LET actual_length == Min(rlen, Len(transport.read_buffer))
                data == SubSeq(transport.read_buffer, 1, actual_length)
            IN  /\ transport' = [transport EXCEPT
                                    !.read_buffer = BufferAfterRead(@, actual_length)]
                /\ lastread' = data
                /\ got' = got \o data
                /\ rpc' = "idle"
       ELSE /\ rpc' = "wait"
            /\ UNCHANGED <<transport, lastread, got>>
    /\ UNCHANGED <<clientVars, written, opVars, hpc, hdata, rlen, notified, texc,
                   tcall, tcalls, closes>>

\* BLE read, outside the lock: TimeoutError if the time is up, else sleep and
\* poll again
ReadWait ==
    /\ rpc = "wait"
    /\ \/ rpc' = "poll" /\ UNCHANGED texc
       \/ rpc' = "idle" /\ texc' = "TimeoutError"
    /\ UNCHANGED <<clientVars, written, opVars, transport, lock, hpc, hdata, rlen,
                   notified, got, lastread, tcall, tcalls, closes>>

\* write(data) is called. Serial and socket: the data is written. macOS: the
\* two checks, then the synchronous write. BLE: the check of _connected, then
\* _write_async(data) is submitted to the loop and the caller waits for its
\* future.
WriteCall ==
    /\ rpc = "idle"
    /\ tcalls < MaxTCalls
    /\ tcall' = "write"
    /\ tcalls' = tcalls + 1
    /\ \E data \in WriteData(tcalls + 1) :
        IF transport.kind \in {"ble", "bluetooth_osx"} /\ NotConnected(transport)
        THEN /\ texc' = "RuntimeError"
             /\ transport' = [transport EXCEPT !.future = "none", !.wdata = data]
             /\ UNCHANGED <<written, rpc>>
        ELSE IF transport.kind = "ble"
        THEN /\ texc' = ""
             /\ transport' = [transport EXCEPT
                                 !.pending = Append(@, data),
                                 !.future = "pending",
                                 !.wdata = data]
             /\ rpc' = "writing"
             /\ UNCHANGED written
        ELSE IF transport.kind = "bluetooth_osx" /\ transport.channel /= "open"
        THEN /\ texc' = "RuntimeError"
             /\ transport' = [transport EXCEPT !.wdata = data]
             /\ UNCHANGED <<written, rpc>>
        ELSE /\ texc' = ""
             /\ written' = Append(written, data)
             /\ transport' = [transport EXCEPT !.wdata = data]
             /\ UNCHANGED rpc
    /\ UNCHANGED <<clientVars, opVars, lock, hpc, hdata, rlen, notified,
                   got, lastread, closes>>

\* the loop thread runs the oldest coroutine submitted, _write_async(data):
\* RuntimeError if the client is not connected, else write_gatt_char, which
\* writes the data to the characteristic or raises. The coroutines run in the
\* order of their submission; the future of the call that still waits gets
\* the outcome.
WriteAsync ==
    /\ transport.kind = "ble"
    /\ transport.loop = "running"
    /\ hpc = "idle"
    /\ transport.pending /= <<>>
    /\ LET data == Head(transport.pending)
           waited == rpc = "writing" /\ data = transport.wdata
       IN  \E outcome \in IF transport.client /= "connected"
                          THEN {"RuntimeError"}
                          ELSE {"ok", "BleakError"} :
              /\ written' = IF outcome = "ok" THEN Append(written, data)
                            ELSE written
              /\ transport' = [transport EXCEPT
                                  !.pending = Tail(@),
                                  !.future = IF waited THEN outcome ELSE @]
    /\ UNCHANGED <<clientVars, opVars, lock, hpc, hdata, rpc, rlen, notified, got,
                   lastread, texc, tcall, tcalls, closes>>

\* write: future.result returns, and write returns len(data), or raises what
\* the coroutine raised
WriteReturn ==
    /\ rpc = "writing"
    /\ FutureDone(transport)
    /\ texc' = IF transport.future \in {"RuntimeError", "BleakError"}
               THEN transport.future ELSE ""
    /\ rpc' = "idle"
    /\ UNCHANGED <<clientVars, written, opVars, transport, lock, hpc, hdata, rlen,
                   notified, got, lastread, tcall, tcalls, closes>>

\* write: the 5 s of future.result are over and the coroutine has not ended:
\* TimeoutError; the coroutine stays with the loop
WriteTimeout ==
    /\ rpc = "writing"
    /\ transport.future = "pending"
    /\ transport' = [transport EXCEPT !.future = "timeout"]
    /\ texc' = "TimeoutError"
    /\ rpc' = "idle"
    /\ UNCHANGED <<clientVars, written, opVars, lock, hpc, hdata, rlen, notified,
                   got, lastread, tcall, tcalls, closes>>

\* close() is called (also by __del__ on an object whose __init__ raised).
\* Serial and socket backends define no close: AttributeError.
\* macOS: close the channel, _connected = False.
\* BLE: disconnect on the loop if connected (the loop runs it once the handler
\* in progress is done), _connected = False, ask the loop to stop, join the
\* thread if it is alive.
CloseCall ==
    /\ rpc \in {"idle", "failed"}
    /\ (rpc = "failed" => transport.kind = "ble")
    /\ tcalls < MaxTCalls
    /\ tcall' = "close"
    /\ tcalls' = tcalls + 1
    /\ IF ~HasClose(transport.kind)
       THEN /\ texc' = "AttributeError"
            /\ UNCHANGED <<transport, rpc, closes>>
       ELSE IF transport.kind = "bluetooth_osx"
       THEN /\ texc' = ""
            /\ transport' = [transport EXCEPT
                                !.channel = "none",
                                !.disconnects = IF transport.channel = "open"
                                                THEN @ + 1 ELSE @,
                                !.connected = FALSE]
            /\ closes' = closes + 1
            /\ UNCHANGED rpc
       ELSE /\ (transport.connected => hpc = "idle")
            /\ texc' = ""
            /\ LET live == transport.connected /\ transport.client /= "none" IN
               transport' = [transport EXCEPT
                                !.client = IF live THEN "disconnected" ELSE @,
                                !.subscribed = IF live THEN FALSE ELSE @,
                                !.disconnects = IF live THEN @ + 1 ELSE @,
                                !.connected = IF live THEN FALSE ELSE @,
                                !.loop = IF @ = "running" THEN "stopping" ELSE @]
            /\ IF transport.loop = "running"
               THEN /\ rpc' = (IF rpc = "failed" THEN "failed_joining" ELSE "joining")
                    /\ UNCHANGED closes
               ELSE /\ closes' = closes + 1
                    /\ UNCHANGED rpc
    /\ UNCHANGED <<clientVars, written, opVars, lock, hpc, hdata, rlen, notified, got,
                   lastread>>

\* the loop thread runs the stop it was asked for, and ends
LoopStop ==
    /\ transport.loop = "stopping"
    /\ hpc = "idle"
    /\ transport' = [transport EXCEPT !.loop = "stopped"]
    /\ UNCHANGED <<clientVars, written, opVars, lock, hpc, hdata, rpc, rlen, notified,
                   got, lastread, texc, tcall, tcalls, closes>>

\* close: self._thread.join() returns, the thread having ended
CloseReturn ==
    /\ rpc \in {"joining", "failed_joining"}
    /\ transport.loop = "stopped"
    /\ rpc' = IF rpc = "joining" THEN "idle" ELSE "failed"
    /\ closes' = closes + 1
    /\ UNCHANGED <<clientVars, written, opVars, transport, lock, hpc, hdata, rlen,
                   notified, got, lastread, texc, tcall, tcalls>>

NextTransport ==
    \/ BleInit \/ SerialInit \/ Notify \/ HandlerLock \/ HandlerExtend \/ Deliver
    \/ ReadCall \/ ReadLock \/ ReadTake \/ ReadWait \/ WriteCall
    \/ WriteAsync \/ WriteReturn \/ WriteTimeout
    \/ CloseCall \/ LoopStop \/ CloseReturn

SpecTransport == InitTransport /\ [][NextTransport]_vars

\* s is a prefix of t
IsPrefix(s, t) == Len(s) <= Len(t) /\ s = SubSeq(t, 1, Len(s))

\* the notification the handler has been called with and has not stored yet
InHandler == IF hpc = "idle" THEN <<>> ELSE hdata

(* C27: under every interleaving of the BLE notification handler with the     *)
(* foreground reads, the bytes returned by the successive reads, put          *)
(* together, are a prefix of the notification payloads in arrival order (no   *)
(* byte lost, duplicated or reordered), and a read called with length >= 1    *)
(* returns between 1 and length bytes and leaves the rest buffered.           *)
C27_NotificationsInOrder ==
    transport.kind = "ble" =>
        /\ IsPrefix(got, notified)
        /\ notified = got \o transport.read_buffer \o InHandler
        /\ (tcall = "read" /\ rpc = "idle" /\ texc = "") =>
              /\ Len(lastread) >= 1
              /\ Len(lastread) <= rlen
              /\ IsPrefix(lastread, SubSeq(notified, Len(got) - Len(lastread) + 1,
                                           Len(notified)))

C27_Witness ==
    /\ transport.kind = "ble"
    /\ tcall = "read"
    /\ rpc = "idle"
    /\ texc = ""
    /\ rlen = 1
    /\ got = <<1, 2>>
    /\ lastread = <<2>>
    /\ transport.read_buffer = <<3>>
    /\ hpc = "locked"
    /\ notified = <<1, 2, 3, 4>>

(* C28: after close() has been called on a transport (BLE, macOS), every      *)
(* later read or write on it fails with the not-connected error instead of    *)
(* blocking, and the BLE background event loop is stopped.                    *)
C28_ClosedTransportRefuses ==
    (closes >= 1 /\ transport.kind \in {"ble", "bluetooth_osx"} /\ rpc /= "failed") =>
        /\ ~transport.connected
        /\ rpc \in {"idle"}
        /\ tcall \in {"read", "write"} => texc = "RuntimeError"
        /\ tcall = "close" => texc = ""
        /\ transport.kind = "ble" => transport.loop = "stopped"

C28_Witness ==
    /\ closes = 1
    /\ transport.kind = "ble"
    /\ tcall = "read"
    /\ texc = "RuntimeError"
    /\ rpc = "idle"
    /\ transport.loop = "stopped"
    /\ notified /= <<>>

(* C29: close() is available on every transport backend and is idempotent: a  *)
(* second close() after the first raises no error, performs no second         *)
(* disconnect and leaves the transport in the same closed state.              *)
C29_CloseIdempotent ==
    (tcall = "close" /\ rpc \in {"idle", "failed"}) =>
        /\ texc = ""
        /\ closes >= 1
        /\ ~transport.connected
        /\ transport.disconnects <= 1
        /\ transport.loop \in {"none", "stopped"}

(* C30: if the BLE device does not expose the expected GATT service or        *)
(* characteristic at connect time, constructing the BLE transport fails with  *)
(* an error: the client is disconnected, notifications are never subscribed,  *)
(* the transport is never marked connected, and the connect is not retried.   *)
C30_MissingServiceFailsConnect ==
    (/\ transport.kind = "ble"
     /\ rpc /= "new"
     /\ transport.device.reachable
     /\ ~(transport.device.service /\ transport.device.characteristic)) =>
        /\ rpc \in {"failed", "failed_joining"}
        /\ tcall = "init" => texc = "RuntimeError"
        /\ transport.client = "disconnected"
        /\ transport.disconnects = 1
        /\ ~transport.subscribed
        /\ ~transport.connected
        /\ transport.connects = 1
        /\ notified = <<>>

C30_Witness ==
    /\ transport.kind = "ble"
    /\ rpc = "failed"
    /\ tcall = "init"
    /\ texc = "RuntimeError"
    /\ transport.device = [reachable |-> TRUE, service |-> TRUE, characteristic |-> FALSE]
    /\ transport.disconnects = 1

\* the number of the call a written piece of data came from
CallOf(data) == data[Len(data)]

\* the data of the write call in progress or last made has reached the
\* characteristic
WriteCompleted == \E i \in 1..Len(written) : written[i] = transport.wdata

\* C31: a BLE write that has returned has had its data written to the
\* characteristic by the background loop; a write whose coroutine failed, or
\* did not end within the wait, has raised; and the data reaches the
\* characteristic in the order of the calls.
C31_BleWriteCompletes ==
    transport.kind = "ble" =>
        /\ (tcall = "write" /\ rpc = "idle" /\ texc = "" => WriteCompleted)
        /\ (tcall = "write" /\ rpc = "idle" /\ transport.future /= "ok"
               => texc /= "")
        /\ \A i, j \in 1..Len(written) :
              i < j => CallOf(written[i]) < CallOf(written[j])

\* two BLE writes have returned, the second after a first that timed out or
\* not, and both have reached the characteristic
C31_Witness ==
    /\ transport.kind = "ble"
    /\ tcall = "write"
    /\ rpc = "idle"
    /\ texc = ""
    /\ Len(written) = 2
    /\ transport.pending = <<>>

\* C33: with port "auto" SerialTransport opens the one port enumerated when
\* there is exactly one, and fails, opening nothing, when there is none or
\* more than one; with a port given it opens that port whatever is enumerated.
C33_SerialAutoPort ==
    transport.kind = "serial" /\ rpc /= "new" =>
        IF transport.port = "auto"
        THEN IF Len(transport.all_ports) = 1
             THEN transport.opened = << transport.all_ports[1] >> /\ rpc /= "failed"
             ELSE transport.opened = <<>> /\ rpc = "failed"
        ELSE transport.opened = << transport.port >> /\ rpc /= "failed"

\* the construction with "auto" has failed because two ports were enumerated
C33_Witness ==
    /\ transport.kind = "serial"
    /\ transport.port = "auto"
    /\ Len(transport.all_ports) = 2
    /\ rpc = "failed"
    /\ tcall = "init"
    /\ texc = "RuntimeError"

---------------------------------------------------------------------------
(* A client that calls _transceive several times, one call after the other,   *)
(* over a transport whose read and write may raise, and a device whose        *)
(* frames may reach the client at any later time.                             *)

\* what BLETransport.read and write raise: not connected, or the time is up
TransportFaults == {"RuntimeError", "TimeoutError"}

\* (a variant in which _recv takes a failed read for an empty one)
ReadFaultSwallowed(buf, e) == [buf |-> buf, exc |-> ""]

\* _recv when the transport read raises e: the extend is not reached, and
\* neither _recv nor _transceive has a handler
ReadFault(buf, e) == [buf |-> buf, exc |-> e]

InitCalls ==
    /\ packetbuf = <<>>
    /\ rx = <<>>
    /\ written = <<>>
    /\ tpc = "idle"
    /\ respcode = 0
    /\ rounds = 0
    /\ resp = None
    /\ exc = ""
    /\ lastPackets = <<>>
    /\ lastret = None
    /\ nret = 0
    /\ jpc = "calls"
    /\ image = [width |-> 0, rows |-> <<>>]
    /\ batch_size = 1
    /\ density = 3
    /\ emitted = 0
    /\ arg = None
    /\ endfails = 0
    /\ NoOp
    /\ NoTransport

\* a _transceive call up to its first _recv; the write of _send may raise
CallsCall ==
    /\ jpc = "calls"
    /\ tpc = "idle"
    /\ Len(written) < MaxCalls
    /\ \E c \in Commands :
          \/ /\ TransceiveSend(c.req, c.data, c.off)
             /\ tcall' = "write"
             /\ texc' = ""
          \/ \E e \in TransportFaults :
                /\ respcode' = c.off + c.req
                /\ tcall' = "write"
                /\ texc' = e
                /\ exc' = e
                /\ tpc' = "raised"
                /\ UNCHANGED <<written, resp, rounds, lastPackets>>
    /\ UNCHANGED <<packetbuf, rx, lastret, nret, jpc, image, batch_size, density,
                   emitted, arg, endfails, opVars, transport, lock, hpc, hdata, rpc,
                   rlen, notified, got, lastread, tcalls, closes>>

\* the response code of the request written as number i
AnswerCode(i) ==
    LET req == written[i][3]
        c == CHOOSE c \in Commands : c.req = req
    IN  c.req + c.off

\* The device sends a frame: the answer to any request written so far, a
\* frame of another type, or the device-error frame. Its payload is the number of the
\* frame and the number of requests that were written when it was sent. The
\* frame reaches the client when the transport hands it over, at once or
\* rounds or calls later.
CallsEmit ==
    /\ jpc = "calls"
    /\ written /= <<>>
    /\ emitted < MaxLate
    /\ \E t \in { AnswerCode(i) : i \in 1..Len(written) }
                    \cup {Unrelated, ERR_DEVICE} :
          rx' = rx \o to_bytes(Packet(t, <<emitted + 1, Len(written)>>))
    /\ emitted' = emitted + 1
    /\ UNCHANGED <<packetbuf, written, tpc, respcode, rounds, resp, exc, lastPackets,
                   lastret, nret, jpc, image, batch_size, density, arg, endfails,
                   opVars, bleVars>>

\* what a read returns of the bytes that have arrived: nothing, a part of a
\* frame too short to decode (3 bytes), a part long enough to (5 bytes), one
\* or more whole frames, or everything
ReadSizes ==
    { n \in 0..Min(Len(rx), ReadMax) :
         n \in {0, 3, 5, Len(rx)} \/ n \in FrameEnds(rx, 0) }

\* a round of _transceive with a read that returns some of the bytes
CallsRecv == jpc = "calls" /\ \E n \in ReadSizes : ReadRound(n)

\* a round of _transceive whose transport read raises
CallsReadFault ==
    /\ jpc = "calls"
    /\ tpc = "recv"
    /\ rounds < MaxAttempts
    /\ \E e \in TransportFaults :
          LET f == ReadFault(packetbuf, e) IN
          /\ packetbuf' = f.buf
          /\ texc' = e
          /\ exc' = f.exc
          /\ tpc' = IF f.exc /= "" THEN "raised"
                    ELSE IF rounds + 1 = MaxAttempts THEN "returned"
                    ELSE "recv"
    /\ tcall' = "read"
    /\ rounds' = rounds + 1
    /\ lastPackets' = <<>>
    /\ UNCHANGED <<rx, written, respcode, resp, lastret, nret, jpc, image, batch_size,
                   density, emitted, arg, endfails, opVars, transport, lock, hpc,
                   hdata, rpc, rlen, notified, got, lastread, tcalls, closes>>

NextCalls == CallsCall \/ CallsEmit \/ CallsRecv \/ CallsReadFault \/ Finish

SpecCalls == InitCalls /\ [][NextCalls]_vars

\* C32: when the transport's read or write raises during _transceive, the call
\* ends with that very exception (no further round, no None result), and the
\* step in which it raises leaves the accumulator, the bytes written and the
\* last returned value as they were.
C32_TransportFaultPropagates ==
    /\ [](jpc = "calls" /\ texc /= "" => exc = texc /\ tpc \in {"raised", "idle"})
    /\ [][jpc = "calls" /\ texc' /= "" /\ tpc \in {"idle", "recv"} /\ tpc' /= tpc
            => /\ tpc' = "raised"
               /\ exc' = texc'
               /\ packetbuf' = packetbuf
               /\ written' = written
               /\ lastret' = lastret
               /\ nret' = nret]_vars

\* a read has timed out in the second round or later of a call, with a part
\* of a frame in the accumulator
C32_Witness ==
    /\ jpc = "calls"
    /\ tcall = "read"
    /\ texc = "TimeoutError"
    /\ tpc = "raised"
    /\ exc = "TimeoutError"
    /\ rounds >= 2
    /\ packetbuf /= <<>>

\* the request frames whose response code is code
RequestsFor(code) ==
    { to_bytes(Packet(c.req, c.data)) : c \in { d \in Commands : d.req + d.off = code } }

\* C36: a _transceive call writes its request once, before its first read;
\* the rounds that follow read and write nothing, one read a round, and a call
\* makes at most 6 reads.
C36_RequestWrittenOnce ==
    /\ [](jpc = "calls" => rounds <= 6)
    /\ [][jpc = "calls" =>
            /\ (tpc = "idle" /\ tpc' = "recv" =>
                   /\ Len(written') = Len(written) + 1
                   /\ SubSeq(written', 1, Len(written)) = written
                   /\ written'[Len(written')] \in RequestsFor(respcode')
                   /\ rounds' = 0)
            /\ (tpc /= "idle" => written' = written)
            /\ (tpc /= "idle" /\ rounds' /= rounds =>
                   tpc = "recv" /\ rounds' = rounds + 1)]_vars

\* a call has made its six reads, the device having sent a frame, and returns
\* None with one request written
C36_Witness ==
    /\ jpc = "calls"
    /\ tpc = "returned"
    /\ rounds = 6
    /\ IsNone(resp)
    /\ Len(written) = 1
    /\ emitted >= 1
    /\ texc = ""

\* how many requests had been written when the device sent packet p
SentDuring(p) == p.data[2]

\* C37: the packet a _transceive call returns was sent by the device after
\* the request of that call was written, never while an earlier call was the
\* last one written.
C37_NoLateResponse ==
    jpc = "calls" /\ tpc = "returned" /\ ~IsNone(resp) =>
        SentDuring(resp) = Len(written)

\* the complete frame at the head of buf, if there is one
HasCompleteFrame(buf) == Len(buf) > MinHead /\ Len(buf) >= PktLen(buf)

\* the packets of the whole frames in bytes, in order (a part of a frame at
\* the end is left out)
RECURSIVE WholePackets(_)
WholePackets(bytes) ==
    IF Len(bytes) < FrameOverhead \/ Len(bytes) < bytes[4] + FrameOverhead THEN <<>>
    ELSE << Packet(bytes[3], SubSeq(bytes, 5, 4 + bytes[4])) >>
            \o WholePackets(SubSeq(bytes, bytes[4] + FrameOverhead + 1, Len(bytes)))

\* the packets still to be decoded: those of the bytes in the accumulator and
\* of the bytes the transport has not handed over
PendingPackets ==
    LET ps == WholePackets(packetbuf \o rx) IN { ps[i] : i \in 1..Len(ps) }

\* C38: whenever _recv has returned, the accumulator has no complete frame at
\* its head; a packet the call returns is one of those its last _recv decoded;
\* and no packet _recv decoded, whatever its type, is among the bytes still to
\* be decoded (every frame of the model has its own number), so that a frame
\* that was set aside is never met again.
C38_AccumulatorDrained ==
    jpc = "calls" /\ tpc /= "spin" /\ exc /= "CorruptFrameError" =>
        /\ ~HasCompleteFrame(packetbuf)
        /\ (tpc = "returned" /\ ~IsNone(resp) =>
               \E i \in 1..Len(lastPackets) : lastPackets[i] = resp)
        /\ \A i \in 1..Len(lastPackets) : lastPackets[i] \notin PendingPackets

\* in its second round or later a _recv has put together, from a part left
\* in the accumulator and a new read, a frame of another type and the expected
\* response
C38_Witness ==
    /\ jpc = "calls"
    /\ tpc = "returned"
    /\ rounds >= 2
    /\ Len(lastPackets) = 2
    /\ lastPackets[1].type = Unrelated
    /\ lastPackets[2] = resp
    /\ packetbuf = <<>>

---------------------------------------------------------------------------
(* print_image under fair scheduling: the client takes its next step whenever *)
(* it has one, and the printer answers every request it has not answered.     *)

ClientStep == JobStep \/ RecvRound \/ JobResume \/ SendRows

SpecLive ==
    /\ InitPrint
    /\ [][NextPrint]_vars
    /\ WF_vars(ClientStep)
    /\ WF_vars(DeviceAnswer)

\* C34: with a printer that answers every request, and END_PRINT with success
\* after at most MaxEndFail answers of "not finished", print_image comes to an
\* end (it returns, or an exception leaves it).
C34_PrintTerminates == <>(jpc \in {"done", "raised"})

====
